---- MODULE Spec2Model ----
(***************************************************************************)
(* RadioCalico rating store and HTTP API.                                  *)
(*                                                                         *)
(* Two servers share one schema and one set of rating handlers: the SQLite *)
(* server (server.js) and the PostgreSQL server.  A behaviour of this      *)
(* module is one server process: Init picks which of the two is running.   *)
(* A request is handled in two steps, as in the code: the synchronous part *)
(* of the handler (validation, then handing one SQL statement to the       *)
(* driver), and later the statement's execution together with the callback *)
(* that writes the response.  Statements of different requests execute in  *)
(* any order; each statement is atomic in the database.                    *)
(***************************************************************************)
EXTENDS Integers, Sequences, FiniteSets, Bags, TLC

VARIABLES
    server,        \* "sqlite" (server.js) or "pg" (PostgreSQL server)
    song_ratings,  \* the rows of table song_ratings
    seq,           \* sqlite_sequence.seq / song_ratings_id_seq: last id handed out
    now,           \* the database clock, CURRENT_TIMESTAMP; every write executes at a later time
    pending,       \* bag of requests whose statement is queued in the driver
    lastResp,      \* the response most recently written, [status, body]
    lastErr,       \* the err of the statement most recently executed
    votes,         \* history: per (song, fingerprint), the ratings committed by POST /ratings
    users,         \* the rows of table users
    users_seq,     \* sqlite_sequence.seq / users_id_seq: last user id handed out
    received,      \* history: the number of requests received
    answered,      \* history: the number of responses written
    attempted,     \* history: the number of upsert statements run for POST /ratings
    browser,       \* the characteristics of the visitor's browser
    clock,         \* Date.now() in the browser
    localStorage,  \* the two items the client keeps in browser storage
    userFingerprint,  \* the client's userFingerprint, the result of generateFingerprint
    issued,        \* history: the calls of generateFingerprint since the browser or its
                   \* storage was last changed from outside
    generated,     \* history: the calls of generateSongId, as [title, artist, id]
    currentSongId, \* the client's currentSongId
    display,       \* the rating widgets of the page: counts, status line, active button
    calls,         \* the client's calls of loadSongRatings and rateSong that are at an
                   \* await, in the order they were made, each with the request it awaits
    started,       \* history: the number of calls of loadSongRatings and rateSong that
                   \* reached an await
    migration,     \* the run of database/migrate.js: where it stands, and the rows it read
                   \* from the SQLite file
    twin           \* a SQLite server and a PostgreSQL server side by side, each with its
                   \* store and the response it wrote to the request both were sent last

\* the state of the rating handlers, of the user handlers, the history of the traffic, and
\* the state of the browser client
ratingVars == <<server, song_ratings, seq, now, pending, lastResp, lastErr, votes>>
userVars == <<users, users_seq>>
trafficVars == <<received, answered, attempted>>
clientVars == <<browser, clock, localStorage, userFingerprint, issued>>

songVars == <<generated>>
playerVars == <<currentSongId, display, calls, started>>
migrationVars == <<migration>>
twinVars == <<twin>>

vars == <<ratingVars, userVars, trafficVars, clientVars, songVars, playerVars, migrationVars,
          twinVars>>

---------------------------------------------------------------------------
\* Bounds of the model.

MaxInflight == 2   \* requests with a queued statement at the same time
MaxWrites == 2     \* write statements accepted in one behaviour

---------------------------------------------------------------------------
\* JavaScript / JSON / SQL values, tagged with their type.

Num(n) == [t |-> "number", n |-> n, s |-> ""]
Str(s) == [t |-> "string", n |-> 0, s |-> s]
Null == [t |-> "null", n |-> 0, s |-> ""]
Undefined == [t |-> "undefined", n |-> 0, s |-> ""]

\* !v
Falsy(v) ==
    \/ v.t \in {"null", "undefined"}
    \/ v.t = "number" /\ v.n = 0
    \/ v.t = "string" /\ v.s = ""

\* a || b
Or(a, b) == IF Falsy(a) THEN b ELSE a

\* a bound statement parameter: the drivers bind undefined as NULL
Bind(v) == IF v.t = "undefined" THEN Null ELSE v

---------------------------------------------------------------------------
\* Inputs.

Songs == {"s1", "s2"}
Fingerprints == {"u1", "u2"}
Pairs == Songs \X Fingerprints

\* req.body of POST /ratings: every valid body, and the shapes of invalid body the tests
\* send: one field of a valid body missing, empty or out of range, or no field at all
ValidBodies ==
    [songId : {Str(s) : s \in Songs}, rating : {Num(1), Num(-1)},
     userFingerprint : {Str(f) : f \in Fingerprints}]
BaseBody == [songId |-> Str("s1"), rating |-> Num(1), userFingerprint |-> Str("u1")]
InvalidBodies ==
    {[BaseBody EXCEPT !.rating = v] :
        v \in {Num(0), Num(2), Num(-2), Str("invalid"), Str(""), Null, Undefined}}
    \cup {[BaseBody EXCEPT !.songId = v] : v \in {Str(""), Undefined}}
    \cup {[BaseBody EXCEPT !.userFingerprint = v] : v \in {Str(""), Undefined}}
    \cup {[songId |-> Undefined, rating |-> Undefined, userFingerprint |-> Undefined]}
Bodies == ValidBodies \cup InvalidBodies

\* the transport's address of the peer (req.ip, else the socket's remoteAddress)
RawIPs == {Str("::ffff:10.0.0.1"), Str("10.0.0.2")}

---------------------------------------------------------------------------
\* The schema of song_ratings, the same in both stores.

Row(id, songId, fingerprint, userIp, rating, createdAt) ==
    [id |-> id, song_id |-> songId, user_fingerprint |-> fingerprint,
     user_ip |-> userIp, rating |-> rating, created_at |-> createdAt]

\* net.isIP(s) # 0, on the address strings of the model
IsIP(s) == s \in {"10.0.0.1", "10.0.0.2", "::ffff:10.0.0.1", "::ffff:10.0.0.2"}

\* INTEGER column: a text value that looks like an integer is stored as one
IntegerAffinity(v) ==
    IF v = Str("1") THEN Num(1)
    ELSE IF v = Str("-1") THEN Num(-1)
    ELSE v

\* CHECK(rating IN (1, -1)); a NULL passes a CHECK and is left to NOT NULL
CheckRating_AcceptsAnything(v) == TRUE
CheckRating(v) == v = Null \/ v \in {Num(1), Num(-1)}

\* what the column constraints say of a candidate row: NOT NULL, CHECK, and in
\* PostgreSQL VARCHAR(255) for song_id, VARCHAR(500) for user_fingerprint and INET, where
\* SQLite has TEXT; the kind of the violation, or NoError
NoError == Null
TooLong(v, n) == v.t = "string" /\ Len(v.s) > n
ConstraintViolation(srv, row) ==
    IF row.song_id = Null \/ row.user_fingerprint = Null \/ row.rating = Null
    THEN Str("not_null_violation")
    ELSE IF ~CheckRating(row.rating)
    THEN Str("check_violation")
    ELSE IF srv = "pg" /\ (TooLong(row.song_id, 255) \/ TooLong(row.user_fingerprint, 500))
    THEN Str("string_data_right_truncation")
    ELSE IF srv = "pg" /\ row.user_ip # Null /\ ~IsIP(row.user_ip.s)
    THEN Str("invalid_text_representation")
    ELSE NoError

\* the rows UNIQUE(song_id, user_fingerprint) sets against a candidate
Conflicting_BySong(rows, songId, fingerprint) == {r \in rows : r.song_id = songId}
Conflicting_ByFingerprint(rows, songId, fingerprint) ==
    {r \in rows : r.user_fingerprint = fingerprint}
Conflicting(rows, songId, fingerprint) ==
    {r \in rows : r.song_id = songId /\ r.user_fingerprint = fingerprint}

UniqueViolation == Str("unique_violation")

StoreResult(err, rows, s) == [err |-> err, rows |-> rows, seq |-> s]

\* the candidate row of the API's statement: id and created_at by default
Candidate(s, songId, fingerprint, userIp, rating, time) ==
    Row(s + 1, Bind(songId), Bind(fingerprint), Bind(userIp), IntegerAffinity(Bind(rating)), time)

\* INSERT OR REPLACE INTO song_ratings (song_id, user_fingerprint, user_ip, rating):
\* the conflicting row is deleted and a new row with a new id and created_at is inserted,
\* in one statement
InsertOrReplace_KeepsOldRow(rows, s, songId, fingerprint, userIp, rating, time) ==
    LET row == Candidate(s, songId, fingerprint, userIp, rating, time)
        err == ConstraintViolation("sqlite", row)
    IN IF err # NoError THEN StoreResult(err, rows, s)
       ELSE StoreResult(NoError, rows \cup {row}, s + 1)
InsertOrReplace_DeletesOnly(rows, s, songId, fingerprint, userIp, rating, time) ==
    LET row == Candidate(s, songId, fingerprint, userIp, rating, time)
        err == ConstraintViolation("sqlite", row)
        old == Conflicting(rows, row.song_id, row.user_fingerprint)
    IN IF err # NoError THEN StoreResult(err, rows, s)
       ELSE IF old # {} THEN StoreResult(NoError, rows \ old, s)
       ELSE StoreResult(NoError, rows \cup {row}, s + 1)
InsertOrReplace_Ignores(rows, s, songId, fingerprint, userIp, rating, time) ==
    LET row == Candidate(s, songId, fingerprint, userIp, rating, time)
        err == ConstraintViolation("sqlite", row)
        old == Conflicting(rows, row.song_id, row.user_fingerprint)
    IN IF err # NoError THEN StoreResult(err, rows, s)
       ELSE IF old # {} THEN StoreResult(NoError, rows, s)
       ELSE StoreResult(NoError, rows \cup {row}, s + 1)
InsertOrReplace(rows, s, songId, fingerprint, userIp, rating, time) ==
    LET row == Candidate(s, songId, fingerprint, userIp, rating, time)
        err == ConstraintViolation("sqlite", row)
        old == Conflicting(rows, row.song_id, row.user_fingerprint)
    IN IF err # NoError THEN StoreResult(err, rows, s)
       ELSE StoreResult(NoError, (rows \ old) \cup {row}, s + 1)

\* INSERT ... ON CONFLICT (song_id, user_fingerprint)
\* DO UPDATE SET rating = $4, created_at = CURRENT_TIMESTAMP:
\* the sequence is advanced for the candidate row whatever happens to it, and a
\* candidate whose id is taken fails on the primary key
InsertOnConflictUpdate_DoNothing(rows, s, songId, fingerprint, userIp, rating, time) ==
    LET row == Candidate(s, songId, fingerprint, userIp, rating, time)
        err == ConstraintViolation("pg", row)
        old == Conflicting(rows, row.song_id, row.user_fingerprint)
    IN IF err # NoError THEN StoreResult(err, rows, s + 1)
       ELSE IF old # {} THEN StoreResult(NoError, rows, s + 1)
       ELSE IF \E r \in rows : r.id = row.id THEN StoreResult(UniqueViolation, rows, s + 1)
       ELSE StoreResult(NoError, rows \cup {row}, s + 1)
InsertOnConflictUpdate_TogglesOff(rows, s, songId, fingerprint, userIp, rating, time) ==
    LET row == Candidate(s, songId, fingerprint, userIp, rating, time)
        err == ConstraintViolation("pg", row)
        old == Conflicting(rows, row.song_id, row.user_fingerprint)
        updated == {[r EXCEPT !.rating = row.rating, !.created_at = time] :
                       r \in {x \in old : x.rating # row.rating}}
    IN IF err # NoError THEN StoreResult(err, rows, s + 1)
       ELSE IF old # {} THEN StoreResult(NoError, (rows \ old) \cup updated, s + 1)
       ELSE IF \E r \in rows : r.id = row.id THEN StoreResult(UniqueViolation, rows, s + 1)
       ELSE StoreResult(NoError, rows \cup {row}, s + 1)
InsertOnConflictUpdate(rows, s, songId, fingerprint, userIp, rating, time) ==
    LET row == Candidate(s, songId, fingerprint, userIp, rating, time)
        err == ConstraintViolation("pg", row)
        old == Conflicting(rows, row.song_id, row.user_fingerprint)
        updated == {[r EXCEPT !.rating = row.rating, !.created_at = time] : r \in old}
    IN IF err # NoError THEN StoreResult(err, rows, s + 1)
       ELSE IF old # {} THEN StoreResult(NoError, (rows \ old) \cup updated, s + 1)
       ELSE IF \E r \in rows : r.id = row.id THEN StoreResult(UniqueViolation, rows, s + 1)
       ELSE StoreResult(NoError, rows \cup {row}, s + 1)

\* INSERT INTO song_ratings (song_id, user_fingerprint, user_ip, rating) VALUES (?, ?, ?, ?),
\* the statement of the test helper insertRating
PlainInsert(rows, s, songId, fingerprint, userIp, rating, time) ==
    LET row == Candidate(s, songId, fingerprint, userIp, rating, time)
        err == ConstraintViolation("sqlite", row)
    IN IF err # NoError THEN StoreResult(err, rows, s)
       ELSE IF Conflicting(rows, row.song_id, row.user_fingerprint) # {}
       THEN StoreResult(UniqueViolation, rows, s)
       ELSE StoreResult(NoError, rows \cup {row}, s + 1)

\* INSERT INTO song_ratings (id, song_id, user_fingerprint, user_ip, rating, created_at)
\* ... ON CONFLICT (song_id, user_fingerprint) DO NOTHING, the statement of the migration:
\* the id is given, so the sequence stays where it is
InsertMigrated(rows, s, rating) ==
    LET row == Row(rating.id, Bind(rating.song_id), Bind(rating.user_fingerprint),
                   Bind(rating.user_ip), IntegerAffinity(Bind(rating.rating)),
                   rating.created_at)
        err == ConstraintViolation("pg", row)
    IN IF err # NoError THEN StoreResult(err, rows, s)
       ELSE IF Conflicting(rows, row.song_id, row.user_fingerprint) # {}
       THEN StoreResult(NoError, rows, s)
       ELSE IF \E r \in rows : r.id = row.id THEN StoreResult(UniqueViolation, rows, s)
       ELSE StoreResult(NoError, rows \cup {row}, s)

---------------------------------------------------------------------------
\* The queries of the rating handlers.

\* the statement of POST /ratings, as each server words it
UpsertRating(srv, rows, s, songId, fingerprint, userIp, rating, time) ==
    IF srv = "sqlite"
    THEN InsertOrReplace(rows, s, songId, fingerprint, userIp, rating, time)
    ELSE InsertOnConflictUpdate(rows, s, songId, fingerprint, userIp, rating, time)

\* COUNT(CASE WHEN rating = val THEN 1 END) over a set of rows
RECURSIVE CountCaseWhen(_, _)
CountCaseWhen(rows, val) ==
    IF rows = {} THEN 0
    ELSE LET r == CHOOSE x \in rows : TRUE
         IN (IF r.rating = Num(val) THEN 1 ELSE 0) + CountCaseWhen(rows \ {r}, val)

\* PostgreSQL returns COUNT as bigint, which the driver hands over as a decimal string
Digits == <<"0", "1", "2", "3", "4", "5", "6", "7", "8", "9">>

\* Number(v)
Number(v) ==
    IF v.t = "number" THEN v
    ELSE IF v.t = "string" /\ \E i \in DOMAIN Digits : Digits[i] = v.s
         THEN Num((CHOOSE i \in DOMAIN Digits : Digits[i] = v.s) - 1)
    ELSE Null

\* WHERE song_id = ?
WhereSong_AllRows(rows, songId) == rows
WhereSong(rows, songId) == {r \in rows : r.song_id = songId}

\* SELECT COUNT(CASE ...) as thumbs_up, COUNT(CASE ...) as thumbs_down
\* FROM song_ratings WHERE song_id = ?: the result rows (an aggregate gives one row)
SelectCounts(srv, rows, songId) ==
    LET matched == WhereSong(rows, songId)
        up == CountCaseWhen(matched, 1)
        down == CountCaseWhen(matched, -1)
    IN IF srv = "sqlite"
       THEN <<[thumbs_up |-> Num(up), thumbs_down |-> Num(down)]>>
       ELSE <<[thumbs_up |-> Str(Digits[up + 1]), thumbs_down |-> Str(Digits[down + 1])]>>

\* SELECT rating FROM song_ratings WHERE song_id = ? AND user_fingerprint = ?
SelectRating_AnyUser(rows, songId, fingerprint) ==
    {r.rating : r \in {x \in rows : x.song_id = songId}}
SelectRating(rows, songId, fingerprint) ==
    {r.rating : r \in Conflicting(rows, songId, fingerprint)}

---------------------------------------------------------------------------
\* Responses: res.status(..).json(..)

NoBody ==
    [error |-> Undefined, message |-> Undefined, thumbs_up |-> Undefined,
     thumbs_down |-> Undefined, userRating |-> Undefined,
     id |-> Undefined, username |-> Undefined, email |-> Undefined,
     created_at |-> Undefined, rows |-> Undefined,
     status |-> Undefined, database |-> Undefined]
ErrorBody(msg) == [NoBody EXCEPT !.error = msg]
MessageBody(msg) == [NoBody EXCEPT !.message = msg]
CountsBody(up, down) == [NoBody EXCEPT !.thumbs_up = up, !.thumbs_down = down]
UserRatingBody(v) == [NoBody EXCEPT !.userRating = v]

Response(status, body) == [status |-> status, body |-> body]

ValidationMessage == Str("Valid songId, rating (1 or -1), and userFingerprint are required")
SavedMessage == Str("Rating saved successfully")

---------------------------------------------------------------------------
\* The handlers.

\* userIp of POST /ratings.  server.js: req.ip || ... || 'unknown'.
\* PostgreSQL server, parseAndValidateIP: null when absent, the ::ffff: prefix of an
\* IPv4-mapped address cut off, null when net.isIP rejects what is left.
parseAndValidateIP(rawIP) ==
    IF Falsy(rawIP) THEN Null
    ELSE LET Mapped == [m \in {"::ffff:10.0.0.1", "::ffff:10.0.0.2"} |->
                          IF m = "::ffff:10.0.0.1" THEN "10.0.0.1" ELSE "10.0.0.2"]
             cut == IF rawIP.s \in DOMAIN Mapped THEN Mapped[rawIP.s] ELSE rawIP.s
         IN IF IsIP(cut) THEN Str(cut) ELSE Null

UserIp(srv, rawIP) ==
    IF srv = "sqlite" THEN Or(rawIP, Str("unknown")) ELSE parseAndValidateIP(rawIP)

\* !songId || !rating || (rating !== 1 && rating !== -1) || !userFingerprint
ValidationFails_NoSongIdCheck(body) ==
    \/ Falsy(body.rating)
    \/ (body.rating # Num(1) /\ body.rating # Num(-1))
    \/ Falsy(body.userFingerprint)
ValidationFails(body) ==
    \/ Falsy(body.songId)
    \/ Falsy(body.rating)
    \/ (body.rating # Num(1) /\ body.rating # Num(-1))
    \/ Falsy(body.userFingerprint)

\* the callback of POST /ratings: 400 with the store's message on an error, else 201
PostRatingsResponse(err) ==
    IF err # NoError THEN Response(400, ErrorBody(err))
    ELSE Response(201, MessageBody(SavedMessage))

\* the callback of GET /ratings/:songId: rows[0] || {thumbs_up: 0, thumbs_down: 0};
\* the PostgreSQL server converts both counts with Number()
GetRatingsResponse(srv, err, rows) ==
    IF err # NoError THEN Response(500, ErrorBody(err))
    ELSE LET counts == IF Len(rows) > 0 THEN rows[1]
                       ELSE [thumbs_up |-> Num(0), thumbs_down |-> Num(0)]
         IN IF srv = "sqlite"
            THEN Response(200, CountsBody(counts.thumbs_up, counts.thumbs_down))
            ELSE Response(200, CountsBody(Number(counts.thumbs_up), Number(counts.thumbs_down)))

\* the callback of GET /ratings/:songId/user/:fingerprint: row ? row.rating : null
GetUserRatingResponse(err, ratings) ==
    IF err # NoError THEN Response(500, ErrorBody(err))
    ELSE Response(200, UserRatingBody(IF ratings # {} THEN CHOOSE v \in ratings : TRUE ELSE Null))

---------------------------------------------------------------------------
\* The browser of the visitor.

\* the characteristics generateFingerprint reads, in the order of its object literal
Characteristics(width, timezone, canvas) ==
    [screenWidth |-> width, timezone |-> timezone, canvasFingerprint |-> canvas]
Browsers ==
    {Characteristics(w, tz, c) : w \in {1920, 1366}, tz \in {"UTC"}, c \in {"canvas-a", "canvas-b"}}

\* localStorage: radiocalico_fingerprint and radiocalico_fingerprint_meta, null when absent
EmptyStorage == [fingerprint |-> Null, meta |-> Null]

\* migrate.js has not run

\* the rating widgets before any script has written them; the buttons can be clicked.
\* countsOf is the song whose fetched counts are shown, ratingOf the song whose fetched
\* rating the status line and the buttons show (null when they show none), ratingBy the
\* rating of the call of rateSong that fetched it (null when loadSongRatings was called
\* by the poll).
InitialDisplay ==
    [thumbsUp |-> Undefined, thumbsDown |-> Undefined, ratingStatus |-> Undefined,
     active |-> "none", disabled |-> FALSE, countsOf |-> Null, ratingOf |-> Null,
     ratingBy |-> Null]

---------------------------------------------------------------------------
\* State machine.

NoResponse == Response(0, NoBody)

\* two servers started on empty stores, no request sent yet
TwoEmptyStores ==
    [sqlite |-> [rows |-> {}, seq |-> 0], pg |-> [rows |-> {}, seq |-> 0], requests |-> 0,
     resp |-> [sqlite |-> NoResponse, pg |-> NoResponse]]

Init ==
    /\ server \in {"sqlite", "pg"}
    /\ song_ratings = {}
    /\ seq = 0
    /\ now = 0
    /\ pending = EmptyBag
    /\ lastResp = NoResponse
    /\ lastErr = NoError
    /\ votes = [p \in Pairs |-> <<>>]
    /\ users = {}
    /\ users_seq = 0
    /\ received = 0
    /\ answered = 0
    /\ attempted = 0
    /\ browser = Characteristics(1920, "UTC", "canvas-a")
    /\ clock = 0
    /\ localStorage = EmptyStorage
    /\ userFingerprint = Undefined
    /\ issued = <<>>
    /\ generated = {}
    /\ currentSongId = Null
    /\ display = InitialDisplay
    /\ calls = <<>>
    /\ started = 0
    /\ migration = [pc |-> "idle", users |-> <<>>, ratings |-> <<>>]
    /\ twin = TwoEmptyStores

RECURSIVE CopiesOf(_, _)
CopiesOf(S, B) ==
    IF S = {} THEN 0
    ELSE LET x == CHOOSE y \in S : TRUE
         IN CopiesIn(x, B) + CopiesOf(S \ {x}, B)

\* the queued statements of POST /ratings
PendingWrites == CopiesOf({r \in BagToSet(pending) : r.kind = "POST /ratings"}, pending)

\* the queued POST /ratings for the same pair as r, r itself not counted
Rivals(r) ==
    CopiesOf({q \in BagToSet(pending) :
                 /\ q.kind = "POST /ratings"
                 /\ q.songId = r.songId
                 /\ q.userFingerprint = r.userFingerprint}, pending) - 1

\* app.post('/ratings'), up to the call of the driver.  The peer's address is an input of
\* the request that nothing reads before the statement runs: it is drawn in RunPostRatings.
PostRatings(body) ==
    IF ValidationFails(body)
    THEN /\ lastResp' = Response(400, ErrorBody(ValidationMessage))
         /\ UNCHANGED <<server, song_ratings, seq, now, pending, lastErr, votes>>
    ELSE /\ BagCardinality(pending) < MaxInflight
         /\ now + PendingWrites < MaxWrites
         /\ pending' = pending (+) SetToBag({[kind |-> "POST /ratings", songId |-> body.songId,
                                                rating |-> body.rating,
                                                userFingerprint |-> body.userFingerprint]})
         /\ UNCHANGED <<server, song_ratings, seq, now, lastResp, lastErr, votes>>

\* the statement of a POST /ratings from the address rawIP executes and its callback answers
RunPostRatings(r, rawIP) ==
    /\ BagIn(r, pending)
    /\ r.kind = "POST /ratings"
    /\ LET userIp == UserIp(server, rawIP)
           res == UpsertRating(server, song_ratings, seq, r.songId, r.userFingerprint,
                               userIp, r.rating, now)
           pair == <<r.songId.s, r.userFingerprint.s>>
       IN /\ song_ratings' = res.rows
          /\ seq' = res.seq
          /\ lastErr' = res.err
          /\ lastResp' = PostRatingsResponse(res.err)
          /\ votes' = IF res.err = NoError /\ pair \in Pairs
                      THEN [votes EXCEPT ![pair] =
                               Append(@, [rating |-> r.rating.n, userIp |-> userIp,
                                          at |-> now, raced |-> Rivals(r) > 0])]
                      ELSE votes
    /\ pending' = pending (-) SetToBag({r})
    /\ now' = now + 1
    /\ UNCHANGED server

\* app.get('/ratings/:songId'): the aggregate query and the callback that answers.
\* Queuing the query changes nothing another request can see, so the handler is one step,
\* taken at the moment the query executes.
GetRatings(songId) ==
    /\ lastResp' = GetRatingsResponse(server, NoError,
                                      SelectCounts(server, song_ratings, Str(songId)))
    /\ lastErr' = NoError
    /\ UNCHANGED <<server, song_ratings, seq, now, pending, votes>>

\* app.get('/ratings/:songId/user/:fingerprint'): the query and the callback that answers
GetUserRating(songId, fingerprint) ==
    /\ lastResp' = GetUserRatingResponse(NoError,
                       SelectRating(song_ratings, Str(songId), Str(fingerprint)))
    /\ lastErr' = NoError
    /\ UNCHANGED <<server, song_ratings, seq, now, pending, votes>>

\* the rating endpoints: none of their handlers has a statement on users, and nothing of
\* the browser is theirs to change
Next ==
    /\ \/ \E body \in Bodies : PostRatings(body)
       \/ \E r \in BagToSet(pending), rawIP \in RawIPs : RunPostRatings(r, rawIP)
       \/ \E songId \in Songs : GetRatings(songId)
       \/ \E songId \in Songs, fingerprint \in Fingerprints : GetUserRating(songId, fingerprint)
    /\ UNCHANGED <<userVars, trafficVars, clientVars, songVars, playerVars, migrationVars, twinVars>>

Spec == Init /\ [][Next]_vars

---------------------------------------------------------------------------
\* Writes that reach the store without passing through the API.

\* the ratings such a write may carry
DirectRatings == {Num(1), Num(-1), Num(0), Num(2), Str("1"), Str("invalid"), Null}

\* dbHelpers.insertRating(songId, userFingerprint, userIp, rating), on the SQLite schema
insertRating(songId, fingerprint, userIp, rating) ==
    /\ server = "sqlite"
    /\ now + PendingWrites < MaxWrites
    /\ LET res == PlainInsert(song_ratings, seq, Str(songId), Str(fingerprint), userIp,
                              rating, now)
       IN /\ song_ratings' = res.rows
          /\ seq' = res.seq
          /\ lastErr' = res.err
    /\ now' = now + 1
    /\ UNCHANGED <<server, pending, lastResp, votes>>

\* one turn of the loop of migrateData over the ratings read from the SQLite file
MigrateRating(rating) ==
    /\ server = "pg"
    /\ now + PendingWrites < MaxWrites
    /\ LET res == InsertMigrated(song_ratings, seq, rating)
       IN /\ song_ratings' = res.rows
          /\ seq' = res.seq
          /\ lastErr' = res.err
    /\ now' = now + 1
    /\ UNCHANGED <<server, pending, lastResp, votes>>

\* the rows a SQLite file may hold for the migration to read
MigratedRows ==
    {Row(id, Str(s), Str(f), ip, v, 0) :
        id \in 1..MaxWrites, s \in Songs, f \in Fingerprints,
        ip \in {Str("10.0.0.2")}, v \in DirectRatings}

DirectWrite ==
    \/ \E songId \in Songs, fingerprint \in Fingerprints, rating \in DirectRatings :
          insertRating(songId, fingerprint, Str("127.0.0.1"), rating)
    \/ \E rating \in MigratedRows : MigrateRating(rating)

\* every statement that writes song_ratings, from the API or not
NextStore ==
    /\ \/ \E body \in Bodies : PostRatings(body)
       \/ \E r \in BagToSet(pending), rawIP \in RawIPs : RunPostRatings(r, rawIP)
       \/ DirectWrite
    /\ UNCHANGED <<userVars, trafficVars, clientVars, songVars, playerVars, migrationVars, twinVars>>

SpecStore == Init /\ [][NextStore]_vars

---------------------------------------------------------------------------
\* The users table and its handlers.

UserRow(id, username, email, createdAt) ==
    [id |-> id, username |-> username, email |-> email, created_at |-> createdAt]

\* req.body of POST /users
UserBodies ==
    [username : {Str("ann"), Str("bob"), Str("")},
     email : {Str("ann@x"), Str("bob@x"), Undefined}]

\* req.params.id: the text of the path segment, numeric or not
UserIds == {Digits[i + 1] : i \in 1..MaxWrites} \cup {"abc"}

\* the integer a text stands for, Null when it stands for none
AsInteger(text) ==
    IF \E i \in DOMAIN Digits : Digits[i] = text
    THEN Num((CHOOSE i \in DOMAIN Digits : Digits[i] = text) - 1)
    ELSE Null

\* id PRIMARY KEY, username UNIQUE NOT NULL, email UNIQUE NOT NULL: the kind of the
\* violation, or NoError
UserConstraintViolation(rows, row) ==
    IF row.username = Null \/ row.email = Null
    THEN Str("not_null_violation")
    ELSE IF \E u \in rows : u.username = row.username \/ u.email = row.email
                                                      \/ u.id = row.id
    THEN UniqueViolation
    ELSE NoError

\* INSERT INTO users (username, email) VALUES (?, ?).  SQLite takes an id when the row is
\* stored; PostgreSQL advances the sequence for every candidate row.
InsertUser_NoUniqueEmail(srv, rows, s, username, email, time) ==
    LET row == UserRow(s + 1, Bind(username), Bind(email), time)
    IN IF \E u \in rows : u.username = row.username
       THEN StoreResult(UniqueViolation, rows, IF srv = "sqlite" THEN s ELSE s + 1)
       ELSE StoreResult(NoError, rows \cup {row}, s + 1)
InsertUser(srv, rows, s, username, email, time) ==
    LET row == UserRow(s + 1, Bind(username), Bind(email), time)
        err == UserConstraintViolation(rows, row)
    IN IF err # NoError
       THEN StoreResult(err, rows, IF srv = "sqlite" THEN s ELSE s + 1)
       ELSE StoreResult(NoError, rows \cup {row}, s + 1)

\* WHERE id = ?, the parameter being the text of the path segment.  SQLite compares the
\* integer column with the number the text stands for, and with no row when it stands for
\* none; PostgreSQL reads the parameter as an integer and fails when it is none.
WhereId_FirstRow(srv, rows, id) ==
    [err |-> NoError, rows |-> IF rows = {} THEN {} ELSE {CHOOSE u \in rows : TRUE}]
WhereId(srv, rows, id) ==
    IF AsInteger(id) = Null /\ srv = "pg"
    THEN [err |-> Str("invalid_text_representation"), rows |-> {}]
    ELSE [err |-> NoError, rows |-> {u \in rows : Num(u.id) = AsInteger(id)}]

\* the rows of a result in the order of a column, ascending
RECURSIVE OrderBy(_, _)
OrderBy(rows, column) ==
    IF rows = {} THEN <<>>
    ELSE LET first == CHOOSE u \in rows : \A v \in rows : u[column] <= v[column]
         IN <<first>> \o OrderBy(rows \ {first}, column)

\* SELECT * FROM users: in rowid order in SQLite, ORDER BY created_at DESC in PostgreSQL
SelectUsers(srv, rows) ==
    LET Reverse(seqn) == [i \in 1..Len(seqn) |-> seqn[Len(seqn) + 1 - i]]
    IN IF srv = "sqlite" THEN OrderBy(rows, "id") ELSE Reverse(OrderBy(rows, "created_at"))

NotFoundMessage == Str("User not found")
DeletedMessage == Str("User deleted successfully")

UserBody(u) ==
    [NoBody EXCEPT !.id = Num(u.id), !.username = u.username, !.email = u.email,
                   !.created_at = Num(u.created_at)]

\* the callback of POST /users.  server.js answers { id: this.lastID, username, email };
\* the PostgreSQL server answers the row RETURNING * gave, and words a unique violation
\* (code 23505) itself.
PostUsersResponse(srv, err, row) ==
    IF err # NoError
    THEN IF srv = "pg" /\ err = UniqueViolation
         THEN Response(400, ErrorBody(Str("Username or email already exists")))
         ELSE Response(400, ErrorBody(err))
    ELSE IF srv = "sqlite"
    THEN Response(201, [UserBody(row) EXCEPT !.created_at = Undefined])
    ELSE Response(201, UserBody(row))

\* the callback of GET /users
GetUsersResponse(err, rows) ==
    IF err # NoError THEN Response(500, ErrorBody(err))
    ELSE Response(200, [NoBody EXCEPT !.rows = rows])

\* the callback of GET /users/:id
GetUserResponse(err, rows) ==
    IF err # NoError THEN Response(500, ErrorBody(err))
    ELSE IF rows # {} THEN Response(200, UserBody(CHOOSE u \in rows : TRUE))
    ELSE Response(404, ErrorBody(NotFoundMessage))

\* the callback of DELETE /users/:id: this.changes / result.rowCount
DeleteUserResponse(err, changes) ==
    IF err # NoError THEN Response(500, ErrorBody(err))
    ELSE IF changes > 0 THEN Response(200, MessageBody(DeletedMessage))
    ELSE Response(404, ErrorBody(NotFoundMessage))

\* app.get('/users')
GetUsers ==
    /\ lastResp' = GetUsersResponse(NoError, SelectUsers(server, users))
    /\ lastErr' = NoError
    /\ UNCHANGED <<server, song_ratings, seq, now, pending, votes, userVars>>

\* app.post('/users'): the validation, then the statement and the callback that answers.
\* The handler reads nothing of the store before its statement runs, so it is one step,
\* taken at the moment the statement executes.
PostUsers(body) ==
    IF Falsy(body.username) \/ Falsy(body.email)
    THEN /\ lastResp' = Response(400, ErrorBody(Str("Username and email are required")))
         /\ UNCHANGED <<server, song_ratings, seq, now, pending, lastErr, votes, userVars>>
    ELSE /\ now + PendingWrites < MaxWrites
         /\ LET res == InsertUser(server, users, users_seq, body.username, body.email, now)
            IN /\ users' = res.rows
               /\ users_seq' = res.seq
               /\ lastErr' = res.err
               /\ lastResp' = PostUsersResponse(server, res.err,
                                  UserRow(res.seq, body.username, body.email, now))
         /\ now' = now + 1
         /\ UNCHANGED <<server, song_ratings, seq, pending, votes>>

\* app.get('/users/:id')
GetUser(id) ==
    /\ LET res == WhereId(server, users, id)
       IN /\ lastErr' = res.err
          /\ lastResp' = GetUserResponse(res.err, res.rows)
    /\ UNCHANGED <<server, song_ratings, seq, now, pending, votes, userVars>>

\* app.delete('/users/:id')
DeleteUser_Cascades(id) ==
    /\ LET res == WhereId(server, users, id)
       IN /\ lastErr' = res.err
          /\ lastResp' = DeleteUserResponse(res.err, Cardinality(res.rows))
          /\ users' = users \ res.rows
          /\ song_ratings' = IF res.rows = {} THEN song_ratings ELSE {}
    /\ UNCHANGED <<server, seq, now, pending, votes, users_seq>>
DeleteUser(id) ==
    /\ LET res == WhereId(server, users, id)
       IN /\ lastErr' = res.err
          /\ lastResp' = DeleteUserResponse(res.err, Cardinality(res.rows))
          /\ users' = users \ res.rows
    /\ UNCHANGED <<server, song_ratings, seq, now, pending, votes, users_seq>>

\* the valid bodies of POST /ratings and one the validation rejects
ApiBodies == ValidBodies \cup {[BaseBody EXCEPT !.rating = Num(0)]}

\* every endpoint of the API
NextApi ==
    /\ \/ /\ \/ \E body \in ApiBodies : PostRatings(body)
             \/ \E r \in BagToSet(pending) : RunPostRatings(r, Str("10.0.0.2"))
             \/ \E songId \in Songs : GetRatings(songId)
             \/ \E songId \in Songs, fingerprint \in Fingerprints :
                   GetUserRating(songId, fingerprint)
          /\ UNCHANGED userVars
       \/ GetUsers
       \/ \E body \in UserBodies : PostUsers(body)
       \/ \E id \in UserIds : GetUser(id)
       \/ \E id \in UserIds : DeleteUser(id)
    /\ UNCHANGED <<trafficVars, clientVars, songVars, playerVars, migrationVars, twinVars>>

SpecApi == Init /\ [][NextApi]_vars

---------------------------------------------------------------------------
\* Statements that fail in the store: the file or the connection is not available.

MaxRequests == 3   \* requests received in one behaviour with failing statements

ConnectionError == Str("connection_failure")

\* app.get('/health'), a route of the PostgreSQL server: SELECT 1 succeeds or fails
Health(err) ==
    /\ server = "pg"
    /\ lastErr' = err
    /\ lastResp' =
          IF err # NoError
          THEN Response(500, [NoBody EXCEPT !.status = Str("error"),
                                            !.database = Str("disconnected")])
          ELSE Response(200, [NoBody EXCEPT !.status = Str("ok"),
                                            !.database = Str("connected")])
    /\ UNCHANGED <<server, song_ratings, seq, now, pending, votes, userVars>>

\* the statement of a queued POST /ratings fails before it changes anything, and the
\* callback answers
FailPostRatings_Retries(r) ==
    /\ BagIn(r, pending)
    /\ lastErr' = ConnectionError
    /\ UNCHANGED <<server, song_ratings, seq, now, pending, lastResp, votes, userVars>>
FailPostRatings(r) ==
    /\ BagIn(r, pending)
    /\ lastErr' = ConnectionError
    /\ lastResp' = PostRatingsResponse(ConnectionError)
    /\ pending' = pending (-) SetToBag({r})
    /\ UNCHANGED <<server, song_ratings, seq, now, votes, userVars>>

\* a request of a handler whose one statement runs as soon as the request is taken, valid
\* where the route validates: the statement fails and the callback answers the error
FailRequest(route) ==
    /\ lastErr' = ConnectionError
    /\ lastResp' =
          LET err == ConnectionError
          IN CASE route = "GET /ratings/:songId" -> GetRatingsResponse(server, err, <<>>)
               [] route = "GET /ratings/:songId/user/:fingerprint" ->
                      GetUserRatingResponse(err, {})
               [] route = "GET /users" -> GetUsersResponse(err, <<>>)
               [] route = "POST /users" ->
                      PostUsersResponse(server, err, UserRow(0, Null, Null, 0))
               [] route = "GET /users/:id" -> GetUserResponse(err, {})
               [] route = "DELETE /users/:id" -> DeleteUserResponse(err, 0)
    /\ UNCHANGED <<server, song_ratings, seq, now, pending, votes, userVars>>

\* the history of the traffic: a request arrives, a response is written, an upsert is run
Arrives == received < MaxRequests /\ received' = received + 1
Answers == answered' = answered + 1
Attempts == attempted' = attempted + 1

\* every endpoint, with statements that succeed and statements that fail
NextFault ==
    /\ \/ /\ \/ \E body \in ApiBodies :
                   /\ PostRatings(body)
                   /\ Arrives
                   /\ IF ValidationFails(body) THEN Answers ELSE UNCHANGED answered
                   /\ UNCHANGED attempted
             \/ \E r \in BagToSet(pending) :
                   RunPostRatings(r, Str("10.0.0.2")) /\ Answers /\ Attempts
                      /\ UNCHANGED received
             \/ /\ \/ \E songId \in Songs : GetRatings(songId)
                   \/ \E songId \in Songs, fingerprint \in Fingerprints :
                         GetUserRating(songId, fingerprint)
                /\ Arrives /\ Answers /\ UNCHANGED attempted
          /\ UNCHANGED userVars
       \/ \E r \in BagToSet(pending) :
             FailPostRatings(r) /\ Answers /\ Attempts /\ UNCHANGED received
       \/ /\ \/ GetUsers
             \/ \E body \in UserBodies : PostUsers(body)
             \/ \E id \in UserIds : GetUser(id)
             \/ \E id \in UserIds : DeleteUser(id)
             \/ \E err \in {NoError, ConnectionError} : Health(err)
             \/ \E route \in {"GET /ratings/:songId",
                              "GET /ratings/:songId/user/:fingerprint",
                              "GET /users", "POST /users", "GET /users/:id",
                              "DELETE /users/:id"} : FailRequest(route)
          /\ Arrives /\ Answers /\ UNCHANGED attempted
    /\ UNCHANGED <<clientVars, songVars, playerVars, migrationVars, twinVars>>

SpecFault == Init /\ [][NextFault]_vars

---------------------------------------------------------------------------
\* The identity of the browser client: generateFingerprint.

MaxClock == 4   \* the last instant Date.now() reaches
MaxCalls == 3   \* calls of generateFingerprint remembered in the history

\* the 24 hours of the cache, in instants of the clock
CacheTTL == 2

\* btoa(encodeURIComponent(JSON.stringify(fingerprint))).replace(/[^a-zA-Z0-9]/g, '')
\* .substring(0, 64): the first 64 characters encode {"screenWidth":<width>,"screenHeight"
\* and nothing of what follows, so the token is a function of the width of the screen
FirstChars ==
    [w \in {1920, 1366} |->
        IF w = 1920
        THEN "JTdCJTIyc2NyZWVuV2lkdGglMjIlM0ExOTIwJTJDJTIyc2NyZWVuSGVpZ2h0JTIy"
        ELSE "JTdCJTIyc2NyZWVuV2lkdGglMjIlM0ExMzY2JTJDJTIyc2NyZWVuSGVpZ2h0JTIy"]

\* the token generateAsync computes from the characteristics of the browser
Token_Timestamped(b) == Str(IF clock % 2 = 0 THEN FirstChars[1920] ELSE FirstChars[1366])
Token(b) == Str(FirstChars[b.screenWidth])

\* cacheData, as stored under radiocalico_fingerprint_meta
CacheData(result, time) ==
    [fingerprint |-> result, timestamp |-> time, expires |-> time + CacheTTL]

\* the check of the expiration: both items are removed when the metadata has expired
ExpiryCheck(storage, time) ==
    IF storage.meta # Null /\ time > storage.meta.expires THEN EmptyStorage ELSE storage

\* what the two setItem calls of generateAsync leave: both items stored, the token stored
\* and the write of the metadata thrown, or the first write thrown
Writes == {"both", "first", "none"}
SetItems(storage, result, time, stored) ==
    CASE stored = "both" -> [fingerprint |-> result, meta |-> CacheData(result, time)]
      [] stored = "first" -> [storage EXCEPT !.fingerprint = result]
      [] stored = "none" -> storage

\* generateFingerprint(): the cached token when there is one; else the check of the
\* expiration, then generateAsync(), which computes the token and tries to cache it
generateFingerprint(stored) ==
    /\ Len(issued) < MaxCalls
    /\ IF ~Falsy(localStorage.fingerprint)
       THEN /\ userFingerprint' = localStorage.fingerprint
            /\ UNCHANGED localStorage
       ELSE /\ userFingerprint' = Token(browser)
            /\ localStorage' = SetItems(ExpiryCheck(localStorage, clock), Token(browser),
                                        clock, stored)
    /\ issued' = Append(issued, [token |-> userFingerprint',
                                 valid |-> \/ localStorage.meta = Null
                                           \/ clock <= localStorage.meta.expires])
    /\ UNCHANGED <<browser, clock>>

\* time passes
Tick ==
    /\ clock < MaxClock
    /\ clock' = clock + 1
    /\ UNCHANGED <<browser, localStorage, userFingerprint, issued>>

\* the visitor's browser changes: another screen, another canvas rendering
ChangeBrowser(b) ==
    /\ b # browser
    /\ browser' = b
    /\ issued' = <<>>
    /\ UNCHANGED <<clock, localStorage, userFingerprint>>

\* the visitor clears the site's storage
ClearStorage ==
    /\ localStorage # EmptyStorage
    /\ localStorage' = EmptyStorage
    /\ issued' = <<>>
    /\ UNCHANGED <<browser, clock, userFingerprint>>

NextClient ==
    /\ \/ \E stored \in Writes : generateFingerprint(stored)
       \/ Tick
       \/ \E b \in Browsers : ChangeBrowser(b)
       \/ ClearStorage
    /\ UNCHANGED <<ratingVars, userVars, trafficVars, songVars, playerVars, migrationVars, twinVars>>

SpecClient == Init /\ [][NextClient]_vars

---------------------------------------------------------------------------
\* The song identifier of the browser client: generateSongId.  A text is a
\* sequence of characters; the identifier is computed character by character.

MaxSongIds == 2   \* calls of generateSongId remembered in the history

\* the characters of codes 32..126, in the order of their codes (the grave accent, code
\* 96, is written by its name)
Printable ==
    <<" ", "!", "\"", "#", "$", "%", "&", "'", "(", ")", "*", "+", ",", "-", ".", "/",
      "0", "1", "2", "3", "4", "5", "6", "7", "8", "9", ":", ";", "<", "=", ">", "?",
      "@", "A", "B", "C", "D", "E", "F", "G", "H", "I", "J", "K", "L", "M", "N", "O",
      "P", "Q", "R", "S", "T", "U", "V", "W", "X", "Y", "Z", "[", "\\", "]", "^", "_",
      "grave", "a", "b", "c", "d", "e", "f", "g", "h", "i", "j", "k", "l", "m", "n", "o",
      "p", "q", "r", "s", "t", "u", "v", "w", "x", "y", "z", "{", "|", "}", "~">>
Codes == [c \in {Printable[i] : i \in 1..Len(Printable)} |->
              31 + CHOOSE i \in 1..Len(Printable) : Printable[i] = c]
CharCode(c) == Codes[c]

Letters == {Printable[i] : i \in 34..59} \cup {Printable[i] : i \in 66..91}
DigitChars == {Printable[i] : i \in 17..26}

\* encodeURIComponent: the unreserved characters stand for themselves, every other
\* character becomes % and the two hexadecimal digits of its code
HexDigits == <<"0", "1", "2", "3", "4", "5", "6", "7", "8", "9", "A", "B", "C", "D", "E", "F">>
Escape(c) ==
    IF c \in Letters \cup DigitChars \cup {"-", "_", ".", "!", "~", "*", "'", "(", ")"}
    THEN <<c>>
    ELSE <<"%", HexDigits[(CharCode(c) \div 16) + 1], HexDigits[(CharCode(c) % 16) + 1]>>
RECURSIVE encodeURIComponent(_)
encodeURIComponent(text) ==
    IF text = <<>> THEN <<>> ELSE Escape(Head(text)) \o encodeURIComponent(Tail(text))

\* btoa: three characters of 8 bits become four of 6 bits, padded with =
Base64 ==
    <<"A", "B", "C", "D", "E", "F", "G", "H", "I", "J", "K", "L", "M", "N", "O", "P",
      "Q", "R", "S", "T", "U", "V", "W", "X", "Y", "Z", "a", "b", "c", "d", "e", "f",
      "g", "h", "i", "j", "k", "l", "m", "n", "o", "p", "q", "r", "s", "t", "u", "v",
      "w", "x", "y", "z", "0", "1", "2", "3", "4", "5", "6", "7", "8", "9", "+", "/">>
Sextet(n) == Base64[n + 1]
RECURSIVE btoa(_)
btoa(text) ==
    IF text = <<>> THEN <<>>
    ELSE LET b1 == CharCode(text[1])
             b2 == IF Len(text) >= 2 THEN CharCode(text[2]) ELSE 0
             b3 == IF Len(text) >= 3 THEN CharCode(text[3]) ELSE 0
         IN  <<Sextet(b1 \div 4), Sextet((b1 % 4) * 16 + b2 \div 16)>>
               \o (IF Len(text) >= 2 THEN <<Sextet((b2 % 16) * 4 + b3 \div 64)>> ELSE <<"=">>)
               \o (IF Len(text) >= 3 THEN <<Sextet(b3 % 64)>> ELSE <<"=">>)
               \o (IF Len(text) > 3 THEN btoa(SubSeq(text, 4, Len(text))) ELSE <<>>)

\* .replace(/[^a-zA-Z0-9]/g, ''), and the characters that are left as one string
RECURSIVE Alphanumeric(_)
Alphanumeric(text) ==
    IF text = <<>> THEN ""
    ELSE (IF Head(text) \in Letters \cup DigitChars THEN Head(text) ELSE "")
            \o Alphanumeric(Tail(text))

\* `${title}-${artist}`
Template_NoSeparator(title, artist) == title \o artist
Template(title, artist) == title \o <<"-">> \o artist

generateSongId(title, artist) == Alphanumeric(btoa(encodeURIComponent(Template(title, artist))))

\* titles and artists
Texts ==
    {<<>>, <<"a">>, <<"a", "-">>, <<"-", "a">>, <<"~", "a", "d">>, <<"X", "Y">>, <<"a", " ">>}

CallGenerateSongId(title, artist) ==
    /\ Cardinality(generated) < MaxSongIds
    /\ generated' = generated \cup
          {[title |-> title, artist |-> artist, id |-> generateSongId(title, artist)]}

NextSongId ==
    /\ \E title \in Texts, artist \in Texts : CallGenerateSongId(title, artist)
    /\ UNCHANGED <<ratingVars, userVars, trafficVars, clientVars, playerVars,
                   migrationVars, twinVars>>

SpecSongId == Init /\ [][NextSongId]_vars

---------------------------------------------------------------------------
\* The player page: the metadata poll, loadSongRatings and rateSong.  A call of
\* loadSongRatings or rateSong runs up to its next await, where it leaves a request in
\* flight; the server handles the requests in flight in any order and the responses come
\* back in any order; a response resumes its call up to the next await.

MaxTasks == 3   \* calls of loadSongRatings and rateSong in one behaviour

\* the metadata the poll can fetch; an absent title or artist is the empty text
Tracks ==
    {[title |-> <<"a">>, artist |-> <<"X", "Y">>],
     [title |-> <<"a">>, artist |-> <<>>]}
OrText(text, other) == IF text = <<>> THEN other ELSE text

\* generateSongId(data.title || 'Unknown Track', data.artist || 'Unknown Artist'), computed
\* once for each track
SongIds ==
    LET UnknownTrack == <<"U", "n", "k", "n", "o", "w", "n", " ", "T", "r", "a", "c", "k">>
        UnknownArtist == <<"U", "n", "k", "n", "o", "w", "n", " ", "A", "r", "t", "i", "s", "t">>
    IN [data \in Tracks |->
           Str(generateSongId(OrText(data.title, UnknownTrack),
                              OrText(data.artist, UnknownArtist)))]
NewSongId(data) == SongIds[data]

\* a call at an await: the request it sent, whether the request is on its way ("sent"),
\* answered ("answered", the response on its way) or failed ("lost", fetch rejects)
Call(fn, awaiting, songId, rating) ==
    [fn |-> fn, awaiting |-> awaiting, songId |-> songId, rating |-> rating,
     userFingerprint |-> userFingerprint', flight |-> "sent", resp |-> NoResponse,
     posted |-> Null]
Fetch(call, request, songId) ==
    [call EXCEPT !.awaiting = request, !.songId = songId, !.flight = "sent",
                 !.resp = NoResponse]

\* response.ok
Ok(resp) == resp.status \in 200..299

\* loadSongRatings(songId) up to its first await, as the call c: without a song ID the
\* widgets are reset and the call returns, else GET /ratings/:songId is sent
LoadDisplay(d, songId) ==
    IF Falsy(songId)
    THEN [d EXCEPT !.thumbsUp = Str("0"), !.thumbsDown = Str("0"),
                   !.ratingStatus = Str("No song selected"), !.disabled = TRUE,
                   !.countsOf = songId, !.ratingOf = songId]
    ELSE d
Resume(i, c) == [calls EXCEPT ![i] = c]
Return(i) == SubSeq(calls, 1, i - 1) \o SubSeq(calls, i + 1, Len(calls))

\* if (!userFingerprint) userFingerprint = generateFingerprint()
EnsureFingerprint ==
    IF Falsy(userFingerprint)
    THEN \E stored \in Writes : generateFingerprint(stored)
    ELSE UNCHANGED clientVars

\* the DOMContentLoaded listener: the fingerprint, then the first poll is sent
DOMContentLoaded(stored) ==
    /\ userFingerprint = Undefined
    /\ generateFingerprint(stored)
    /\ UNCHANGED <<ratingVars, playerVars>>

Loaded == userFingerprint # Undefined

\* fetchTrackMetadata when its fetch completes: updateTrackDisplay(data), or
\* updateTrackDisplay(null) after a failure
\* loadSongRatings(songId), called anew, up to its first await
StartLoad(songId) ==
    /\ EnsureFingerprint
    /\ display' = LoadDisplay(display, songId)
    /\ IF Falsy(songId) THEN UNCHANGED <<calls, started>>
       ELSE /\ started < MaxTasks
            /\ started' = started + 1
            /\ calls' = Append(calls, Call("loadSongRatings", "GET /ratings", songId, Null))

updateTrackDisplay_AlwaysLoads(data) ==
    /\ Loaded
    /\ data # Null
    /\ currentSongId' = NewSongId(data)
    /\ StartLoad(currentSongId')
    /\ UNCHANGED ratingVars
updateTrackDisplay(data) ==
    /\ Loaded
    /\ IF data = Null \/ NewSongId(data) = currentSongId
       THEN UNCHANGED <<clientVars, playerVars>>
       ELSE /\ currentSongId' = NewSongId(data)
            /\ StartLoad(currentSongId')
    /\ UNCHANGED ratingVars

\* a click on one of the two buttons: rateSong(rating) up to its await
rateSong_NoSongCheck(rating) ==
    /\ Loaded
    /\ ~display.disabled
    /\ started < MaxTasks
    /\ EnsureFingerprint
    /\ started' = started + 1
    /\ calls' = Append(calls, Call("rateSong", "POST /ratings", currentSongId, Num(rating)))
    /\ UNCHANGED <<ratingVars, currentSongId, display>>
rateSong(rating) ==
    /\ Loaded
    /\ ~display.disabled
    /\ IF Falsy(currentSongId)
       THEN UNCHANGED <<clientVars, playerVars>>
       ELSE /\ started < MaxTasks
            /\ EnsureFingerprint
            /\ started' = started + 1
            /\ calls' = Append(calls, Call("rateSong", "POST /ratings", currentSongId,
                                           Num(rating)))
            /\ UNCHANGED <<currentSongId, display>>
    /\ UNCHANGED ratingVars

\* the server handles the request of call i; err is the outcome of its statement
Serve(i, err) ==
    /\ calls[i].flight = "sent"
    /\ LET c == calls[i]
           body == [songId |-> c.songId, rating |-> c.rating,
                    userFingerprint |-> c.userFingerprint]
           res == IF err # NoError THEN StoreResult(err, song_ratings, seq)
                  ELSE UpsertRating(server, song_ratings, seq, c.songId, c.userFingerprint,
                                    UserIp(server, Str("10.0.0.2")), c.rating, now)
           resp == CASE c.awaiting = "POST /ratings" ->
                           IF ValidationFails(body)
                           THEN Response(400, ErrorBody(ValidationMessage))
                           ELSE PostRatingsResponse(res.err)
                     [] c.awaiting = "GET /ratings" ->
                           GetRatingsResponse(server, err,
                               IF err # NoError THEN <<>>
                               ELSE SelectCounts(server, song_ratings, c.songId))
                     [] OTHER ->
                           GetUserRatingResponse(err,
                               SelectRating(song_ratings, c.songId, c.userFingerprint))
       IN /\ calls' = [calls EXCEPT ![i] = [c EXCEPT !.flight = "answered", !.resp = resp]]
          /\ IF c.awaiting = "POST /ratings" /\ ~ValidationFails(body)
             THEN /\ song_ratings' = res.rows
                  /\ seq' = res.seq
                  /\ now' = now + 1
             ELSE UNCHANGED <<song_ratings, seq, now>>
    /\ UNCHANGED <<server, pending, lastResp, lastErr, votes, clientVars, currentSongId,
                   display, started>>

\* the connection of call i fails before its request reaches the server
Lose(i) ==
    /\ calls[i].flight = "sent"
    /\ calls' = [calls EXCEPT ![i].flight = "lost", ![i].resp = NoResponse]
    /\ UNCHANGED <<ratingVars, clientVars, currentSongId, display, started>>

\* the texts of the status line after GET /ratings/:songId/user/:fingerprint
StatusOf(userRating) ==
    IF userRating = Num(1) THEN Str("You liked this song")
    ELSE IF userRating = Num(-1) THEN Str("You disliked this song")
    ELSE Str("Rate this song")
\* updateRatingButtons(userRating)
updateRatingButtons(userRating) ==
    IF userRating = Num(1) THEN "thumbsUp"
    ELSE IF userRating = Num(-1) THEN "thumbsDown"
    ELSE "none"
\* 'Error: ' + errorData.error
ErrorStatus(body) ==
    Str("Error: " \o (IF body.error.t = "string" THEN body.error.s ELSE "undefined"))

\* the catch of loadSongRatings
LoadFailed(d, songId) ==
    [d EXCEPT !.ratingStatus = Str("Unable to load ratings"), !.disabled = TRUE,
              !.ratingOf = Null]

\* rateSong after its await: the catch, or loadSongRatings(currentSongId) up to its first
\* await, or the error of the response on the status line
AfterPost(i) ==
    LET c == calls[i]
    IN IF c.flight = "lost"
       THEN /\ display' = [display EXCEPT !.ratingStatus = Str("Unable to save rating"),
                                           !.ratingOf = Null]
            /\ calls' = Return(i)
       ELSE IF Ok(c.resp)
       THEN /\ display' = LoadDisplay(display, currentSongId)
            /\ calls' = IF Falsy(currentSongId) THEN Return(i)
                        ELSE Resume(i, Fetch([c EXCEPT !.posted = Num(c.resp.status)],
                                             "GET /ratings", currentSongId))
       ELSE /\ display' = [display EXCEPT !.ratingStatus = ErrorStatus(c.resp.body),
                                           !.ratingOf = Null]
            /\ calls' = Return(i)

\* loadSongRatings after its first await: the counts, then the second fetch
AfterCounts(i) ==
    LET c == calls[i]
    IN IF c.flight = "lost"
       THEN /\ display' = LoadFailed(display, c.songId)
            /\ calls' = Return(i)
       ELSE /\ display' =
                  IF Ok(c.resp)
                  THEN [display EXCEPT !.thumbsUp = Or(c.resp.body.thumbs_up, Num(0)),
                                       !.thumbsDown = Or(c.resp.body.thumbs_down, Num(0)),
                                       !.countsOf = c.songId]
                  ELSE display
            /\ calls' = Resume(i, Fetch(c, "GET /ratings/user", c.songId))

\* loadSongRatings after its second await: the buttons and the status line
AfterUserRating(i) ==
    LET c == calls[i]
    IN /\ display' =
             IF c.flight = "lost" THEN LoadFailed(display, c.songId)
             ELSE IF Ok(c.resp)
             THEN [display EXCEPT !.active = updateRatingButtons(c.resp.body.userRating),
                                  !.disabled = FALSE,
                                  !.ratingStatus = StatusOf(c.resp.body.userRating),
                                  !.ratingOf = c.songId, !.ratingBy = c.rating]
             ELSE [display EXCEPT !.ratingStatus = Str("Rate this song"),
                                  !.ratingOf = Null]
       /\ calls' = Return(i)

\* the response of call i, or the failure of its fetch, resumes the call
Deliver(i) ==
    /\ calls[i].flight \in {"answered", "lost"}
    /\ CASE calls[i].awaiting = "POST /ratings" -> AfterPost(i)
         [] calls[i].awaiting = "GET /ratings" -> AfterCounts(i)
         [] OTHER -> AfterUserRating(i)
    /\ UNCHANGED <<ratingVars, clientVars, currentSongId, started>>

\* the page with a browser storage that accepts its writes
NextPlayer ==
    /\ \/ DOMContentLoaded("both")
       \/ \E data \in Tracks \cup {Null} : updateTrackDisplay(data)
       \/ \E rating \in {1, -1} : rateSong(rating)
       \/ \E i \in DOMAIN calls, err \in {NoError, ConnectionError} : Serve(i, err)
       \/ \E i \in DOMAIN calls : Lose(i)
       \/ \E i \in DOMAIN calls : Deliver(i)
    /\ UNCHANGED <<userVars, trafficVars, songVars, migrationVars, twinVars>>

SpecPlayer == Init /\ [][NextPlayer]_vars

\* the page when every poll, every statement and every connection succeeds
NextReliable ==
    /\ \/ DOMContentLoaded("both")
       \/ \E data \in Tracks : updateTrackDisplay(data)
       \/ \E rating \in {1, -1} : rateSong(rating)
       \/ \E i \in DOMAIN calls : Serve(i, NoError)
       \/ \E i \in DOMAIN calls : Deliver(i)
    /\ UNCHANGED <<userVars, trafficVars, songVars, migrationVars, twinVars>>

SpecReliable == Init /\ [][NextReliable]_vars

---------------------------------------------------------------------------
\* database/migrate.js: the rows of a SQLite file are copied to PostgreSQL.

\* the rows a SQLite file may hold: ids, names, addresses and pairs are unique in a file
SqliteUsers ==
    {UserRow(id, Str(name), Str(name \o "@x"), 0) : id \in 1..2, name \in {"ann", "bob"}}
SqliteRatings ==
    {Row(id, Str("s1"), Str(f), Str(ip), Num(v), 0) :
        id \in 1..2, f \in Fingerprints, ip \in {"10.0.0.2"}, v \in {1, -1}}
       \cup {Row(1, Str("s1"), Str("u1"), Str("unknown"), Num(1), 0)}

\* the files: one with no rows, files with users, files with ratings, one with both.
\* SELECT * FROM users / song_ratings gives the rows of a table in the order of their ids
SqliteFiles ==
    LET UsersTables ==
            {<<u>> : u \in SqliteUsers}
               \cup {t \in {<<u, v>> : u \in SqliteUsers, v \in SqliteUsers} :
                        t[1].id < t[2].id /\ t[1].username # t[2].username}
        RatingsTables ==
            {<<r>> : r \in SqliteRatings}
               \cup {t \in {<<r, q>> : r \in SqliteRatings, q \in SqliteRatings} :
                        t[1].id < t[2].id /\ t[1].user_fingerprint # t[2].user_fingerprint}
    IN
    {[users |-> <<>>, ratings |-> <<>>]}
       \cup {[users |-> us, ratings |-> <<>>] : us \in UsersTables}
       \cup {[users |-> <<>>, ratings |-> rs] : rs \in RatingsTables}
       \cup {[users |-> <<UserRow(1, Str("ann"), Str("ann@x"), 0)>>,
              ratings |-> <<Row(1, Str("s1"), Str("u1"), Str("10.0.0.2"), Num(1), 0)>>]}

\* INSERT INTO users (id, username, email, created_at) ... ON CONFLICT (username) DO NOTHING
InsertMigratedUser(rows, user) ==
    IF user.username = Null \/ user.email = Null
    THEN StoreResult(Str("not_null_violation"), rows, 0)
    ELSE IF \E u \in rows : u.username = user.username THEN StoreResult(NoError, rows, 0)
    ELSE IF \E u \in rows : u.id = user.id \/ u.email = user.email
    THEN StoreResult(UniqueViolation, rows, 0)
    ELSE StoreResult(NoError, rows \cup {user}, 0)

\* for (const user of users) await pgClient.query(...): the first error ends the loop
RECURSIVE MigrateUsers(_, _)
MigrateUsers(rows, list) ==
    IF list = <<>> THEN StoreResult(NoError, rows, 0)
    ELSE LET res == InsertMigratedUser(rows, Head(list))
         IN IF res.err # NoError THEN res ELSE MigrateUsers(res.rows, Tail(list))

\* for (const rating of ratings) await pgClient.query(...)
RECURSIVE MigrateRatings(_, _)
MigrateRatings(rows, list) ==
    IF list = <<>> THEN StoreResult(NoError, rows, 0)
    ELSE LET res == InsertMigrated(rows, 0, Head(list))
         IN IF res.err # NoError THEN res ELSE MigrateRatings(res.rows, Tail(list))

\* Math.max(...rows.map(r => r.id))
RECURSIVE MaxId(_)
MaxId(list) ==
    IF Len(list) = 1 THEN list[1].id
    ELSE IF Head(list).id > MaxId(Tail(list)) THEN Head(list).id ELSE MaxId(Tail(list))

\* SELECT setval(sequence, max id of the rows read), when rows were read
Setval(s, list) == IF Len(list) > 0 THEN MaxId(list) ELSE s

\* migrateData(): without a file nothing is done; else the users, then the ratings, then
\* the two sequences.  Every statement is committed by itself, and an error ends the run
\* (process.exit(1)) with the rows copied so far in place.
migrateData(file) ==
    /\ server = "pg"
    /\ migration.pc = "idle"
    /\ pending = EmptyBag
    /\ IF file = Null
       THEN /\ migration' = [migration EXCEPT !.pc = "done"]
            /\ UNCHANGED <<users, users_seq, song_ratings, seq, lastErr>>
       ELSE LET us == MigrateUsers(users, file.users)
                rs == IF us.err # NoError THEN StoreResult(us.err, song_ratings, 0)
                      ELSE MigrateRatings(song_ratings, file.ratings)
            IN /\ users' = us.rows
               /\ song_ratings' = rs.rows
               /\ lastErr' = rs.err
               /\ IF rs.err # NoError
                  THEN /\ migration' = [pc |-> "failed", users |-> file.users,
                                        ratings |-> file.ratings]
                       /\ UNCHANGED <<users_seq, seq>>
                  ELSE /\ migration' = [pc |-> "done", users |-> file.users,
                                        ratings |-> file.ratings]
                       /\ users_seq' = Setval(users_seq, file.users)
                       /\ seq' = Setval(seq, file.ratings)
    /\ UNCHANGED <<server, now, pending, lastResp, votes>>

\* the PostgreSQL server and the migration
NextMigrate ==
    /\ \/ /\ \/ \E body \in {b \in ValidBodies : b.songId = Str("s1")} : PostRatings(body)
             \/ \E r \in BagToSet(pending) : RunPostRatings(r, Str("10.0.0.2"))
          /\ UNCHANGED <<userVars, migrationVars>>
       \/ /\ \/ \E body \in UserBodies : PostUsers(body)
             \/ \E id \in UserIds : DeleteUser(id)
          /\ UNCHANGED migrationVars
       \/ \E file \in SqliteFiles \cup {Null} : migrateData(file)
    /\ server = "pg"
    /\ UNCHANGED <<trafficVars, clientVars, songVars, playerVars, twinVars>>

SpecMigrate == Init /\ [][NextMigrate]_vars

---------------------------------------------------------------------------
\* The two servers side by side: every request is sent to both, each handles it on its
\* own store, and the next request is sent when both have answered.

MaxTwinRequests == 3   \* requests sent to the two servers

\* a song id of 256 characters, as generateSongId gives for a long title
LongSongId ==
    LET Chars64 == "0123456789abcdefghijklmnopqrstuvwxyzABCDEFGHIJKLMNOPQRSTUVWXYZ01"
    IN Str(Chars64 \o Chars64 \o Chars64 \o Chars64)

TwinSongIds == {Str("s1"), LongSongId}

\* app.post('/ratings') of server srv on its store: the response, and the store it leaves
HandlePostRatings(srv, store, body, rawIP, time) ==
    IF ValidationFails(body)
    THEN [store |-> store, resp |-> Response(400, ErrorBody(ValidationMessage))]
    ELSE LET res == UpsertRating(srv, store.rows, store.seq, body.songId,
                                 body.userFingerprint, UserIp(srv, rawIP), body.rating, time)
         IN [store |-> [rows |-> res.rows, seq |-> res.seq],
             resp |-> PostRatingsResponse(res.err)]

\* app.get('/ratings/:songId') of server srv on its store
HandleGetRatings(srv, store, songId) ==
    GetRatingsResponse(srv, NoError, SelectCounts(srv, store.rows, songId))

\* app.get('/ratings/:songId/user/:fingerprint') of server srv on its store
HandleGetUserRating(srv, store, songId, fingerprint) ==
    GetUserRatingResponse(NoError, SelectRating(store.rows, songId, fingerprint))

TwinPostRatings(body, rawIP) ==
    /\ twin.requests < MaxTwinRequests
    /\ LET time == twin.requests + 1
           s == HandlePostRatings("sqlite", twin.sqlite, body, rawIP, time)
           p == HandlePostRatings("pg", twin.pg, body, rawIP, time)
       IN twin' = [sqlite |-> s.store, pg |-> p.store, requests |-> time,
                   resp |-> [sqlite |-> s.resp, pg |-> p.resp]]

TwinGetRatings(songId) ==
    /\ twin.requests < MaxTwinRequests
    /\ twin' = [twin EXCEPT !.requests = @ + 1,
                            !.resp = [sqlite |-> HandleGetRatings("sqlite", twin.sqlite, songId),
                                      pg |-> HandleGetRatings("pg", twin.pg, songId)]]

TwinGetUserRating(songId, fingerprint) ==
    /\ twin.requests < MaxTwinRequests
    /\ twin' = [twin EXCEPT
                   !.requests = @ + 1,
                   !.resp = [sqlite |-> HandleGetUserRating("sqlite", twin.sqlite, songId,
                                                            fingerprint),
                             pg |-> HandleGetUserRating("pg", twin.pg, songId, fingerprint)]]

NextTwin ==
    /\ \/ \E body \in [songId : TwinSongIds, rating : {Num(1), Num(-1)},
                        userFingerprint : {Str("u1")}]
                          \cup {[BaseBody EXCEPT !.rating = Num(0)]},
             rawIP \in RawIPs : TwinPostRatings(body, rawIP)
       \/ \E songId \in TwinSongIds : TwinGetRatings(songId)
       \/ \E songId \in TwinSongIds : TwinGetUserRating(songId, Str("u1"))
    /\ UNCHANGED <<ratingVars, userVars, trafficVars, clientVars, songVars, playerVars,
                   migrationVars>>

SpecTwin == Init /\ [][NextTwin]_vars

---------------------------------------------------------------------------
\* Properties of the rating store and its handlers.

Pair(songId, fingerprint) == <<songId, fingerprint>>
RowsOf(p) == Conflicting(song_ratings, Str(p[1]), Str(p[2]))
LastVote(p) == votes[p][Len(votes[p])]
PendingFor(p) ==
    {q \in BagToSet(pending) : q.songId = Str(p[1]) /\ q.userFingerprint = Str(p[2])}

\* what GET /ratings/:songId and GET /ratings/:songId/user/:fingerprint answer on a store
AggregateOf(rows, songId) ==
    GetRatingsResponse(server, NoError, SelectCounts(server, rows, Str(songId)))
UserRatingOf(rows, songId, fingerprint) ==
    GetUserRatingResponse(NoError, SelectRating(rows, Str(songId), Str(fingerprint)))

\* C1: in every reachable state there is at most one song_ratings row for each
\* (song_id, user_fingerprint) pair.
OneRowPerPair ==
    \A r1, r2 \in song_ratings :
        (r1.song_id = r2.song_id /\ r1.user_fingerprint = r2.user_fingerprint) => r1 = r2

\* a pair has been voted for twice and holds one row
RevotedPairHasOneRow ==
    \E p \in Pairs : Len(votes[p]) >= 2 /\ Cardinality(RowsOf(p)) = 1

\* the last two committed votes of the pair are +1, then -1
UpThenDown(p) ==
    /\ Len(votes[p]) >= 2
    /\ votes[p][Len(votes[p]) - 1].rating = 1
    /\ LastVote(p).rating = -1
NoOtherVoters(p) == \A f \in Fingerprints \ {p[2]} : votes[Pair(p[1], f)] = <<>>

\* C2: after a successful POST /ratings with +1 followed by a successful one with -1 for
\* the same pair, the pair has exactly one row, its stored vote is -1, and
\* GET /ratings/{songId} reports thumbs_up 0 and thumbs_down 1 when the song has no other
\* voters.
UpThenDownLeavesOneDownVote ==
    \A p \in Pairs :
        UpThenDown(p) =>
            /\ Cardinality(RowsOf(p)) = 1
            /\ \A r \in RowsOf(p) : r.rating = Num(-1)
            /\ UserRatingOf(song_ratings, p[1], p[2]) = Response(200, UserRatingBody(Num(-1)))
            /\ NoOtherVoters(p) =>
                  AggregateOf(song_ratings, p[1]) = Response(200, CountsBody(Num(0), Num(1)))

\* +1 then -1 has been committed for the only voter of a song, and the aggregate was read
UpThenDownWasRead ==
    /\ \E p \in Pairs : UpThenDown(p) /\ NoOtherVoters(p) /\ PendingFor(p) = {}
    /\ lastResp = Response(200, CountsBody(Num(0), Num(1)))

\* C3: once the concurrent POST /ratings for one pair have all completed, the store holds
\* exactly one row for the pair, and its value is that of the request committed last.
LastCommittedWins ==
    \A p \in Pairs :
        (votes[p] # <<>> /\ PendingFor(p) = {}) =>
            \E r \in song_ratings : RowsOf(p) = {r} /\ r.rating = Num(LastVote(p).rating)

\* two requests with different values were in flight together for one pair; both are done
RacedVotesCompleted ==
    \E p \in Pairs :
        /\ PendingFor(p) = {}
        /\ Len(votes[p]) >= 2
        /\ votes[p][1].raced
        /\ votes[p][1].rating # votes[p][2].rating

\* the identities whose vote for the song, as last committed, is v
VotersWith(songId, v) ==
    {f \in Fingerprints :
        votes[Pair(songId, f)] # <<>> /\ LastVote(Pair(songId, f)).rating = v}

\* C4: every aggregate read finds exactly one row for each identity that has a stored
\* rating for the song, and counts it under its current value: thumbs_up and thumbs_down
\* are the numbers of identities whose last committed vote is +1 and -1, also while a
\* re-vote by such an identity is in flight.
ReadersSeeEachVoterOnce ==
    [][\A s \in Songs :
          GetRatings(s) =>
              /\ \A f \in Fingerprints :
                    votes[Pair(s, f)] # <<>> =>
                        Cardinality(Conflicting(WhereSong(song_ratings, Str(s)),
                                                Str(s), Str(f))) = 1
              /\ lastResp' = Response(200, CountsBody(Num(Cardinality(VotersWith(s, 1))),
                                                      Num(Cardinality(VotersWith(s, -1)))))]_vars

\* an aggregate counting one voter has been answered while that voter's re-vote is queued
ReadDuringRevote ==
    \E p \in Pairs :
        /\ votes[p] # <<>>
        /\ PendingFor(p) # {}
        /\ lastResp.status = 200
        /\ lastResp.body.thumbs_up \in {Num(0), Num(1)}
        /\ lastResp.body.thumbs_down \in {Num(0), Num(1)}
        /\ lastResp.body.thumbs_up # lastResp.body.thumbs_down

\* the bodies the claim C5 names: a rating of 0, 2, -2, a non-numeric value or null, or a
\* songId, rating or userFingerprint that is missing or empty
NamedInvalid(body) ==
    \/ body.rating \in {Num(0), Num(2), Num(-2), Str("invalid"), Null}
    \/ body.songId \in {Undefined, Str("")}
    \/ body.rating \in {Undefined, Str("")}
    \/ body.userFingerprint \in {Undefined, Str("")}

\* C5: a POST /ratings with such a body is answered 400, queues no statement and leaves the
\* rows of song_ratings as they were.
InvalidRatingIsRejected ==
    [][\/ /\ lastResp'.status = 400
              /\ song_ratings' = song_ratings
              /\ pending' = pending
          \/ \A body \in Bodies : ~(NamedInvalid(body) /\ PostRatings(body))]_vars

\* a request has been rejected by the validation while the store holds rows
RejectedWithRowsStored ==
    /\ lastResp = Response(400, ErrorBody(ValidationMessage))
    /\ song_ratings # {}

\* C6: GET /ratings/{songId} answers 200 with thumbs_up the number of rows of the song
\* rated +1 and thumbs_down the number rated -1; both are 0 for a song with no rows.
AggregateCountsRows ==
    [][\A s \in Songs :
          GetRatings(s) =>
              LET up == {r \in song_ratings : r.song_id = Str(s) /\ r.rating = Num(1)}
                  down == {r \in song_ratings : r.song_id = Str(s) /\ r.rating = Num(-1)}
              IN /\ lastResp' = Response(200, CountsBody(Num(Cardinality(up)),
                                                         Num(Cardinality(down))))
                 /\ (\A r \in song_ratings : r.song_id # Str(s)) =>
                        lastResp' = Response(200, CountsBody(Num(0), Num(0)))]_vars

\* one song has an up vote and a down vote, the other has no rows, and a song's aggregate
\* has been answered as 1 and 1
MixedAggregateRead ==
    /\ \E s \in Songs :
          /\ Cardinality({r \in song_ratings : r.song_id = Str(s)}) = 2
          /\ \E r \in song_ratings : r.song_id = Str(s) /\ r.rating = Num(1)
          /\ \E r \in song_ratings : r.song_id = Str(s) /\ r.rating = Num(-1)
    /\ lastResp = Response(200, CountsBody(Num(1), Num(1)))

\* the request repeats the vote last committed for its pair
Repeats(r) ==
    LET p == Pair(r.songId.s, r.userFingerprint.s)
    IN p \in Pairs /\ votes[p] # <<>> /\ LastVote(p).rating = r.rating.n

\* C7: a POST /ratings that repeats the vote last committed for its pair is answered 201
\* and changes neither the aggregate of any song nor any identity's stored vote.
RepeatedVoteIsIdempotent ==
    [][\A r \in BagToSet(pending), rawIP \in RawIPs :
          (Repeats(r) /\ RunPostRatings(r, rawIP)) =>
              /\ lastResp'.status = 201
              /\ \A s \in Songs : AggregateOf(song_ratings', s) = AggregateOf(song_ratings, s)
              /\ \A s \in Songs, f \in Fingerprints :
                    UserRatingOf(song_ratings', s, f) = UserRatingOf(song_ratings, s, f)]_vars

\* the same vote has been committed twice in a row for a pair
SameVoteTwice ==
    \E p \in Pairs : Len(votes[p]) >= 2 /\ votes[p][1].rating = votes[p][2].rating

\* C8: GET /ratings/{songId}/user/{fingerprint} answers 200 with userRating the rating of
\* the pair's most recently committed POST /ratings, and null when there is none.
UserRatingIsLastVote ==
    [][\A s \in Songs, f \in Fingerprints :
          GetUserRating(s, f) =>
              lastResp' = Response(200, UserRatingBody(
                              IF votes[Pair(s, f)] = <<>> THEN Null
                              ELSE Num(LastVote(Pair(s, f)).rating)))]_vars

\* a pair whose vote went from +1 to -1 exists, another pair of the song has never voted,
\* and a user rating of -1 has been answered
ChangedVoteRead ==
    /\ \E p \in Pairs : UpThenDown(p) /\ NoOtherVoters(p)
    /\ lastResp = Response(200, UserRatingBody(Num(-1)))

\* C9: after a successful POST /ratings for a pair, the pair's row carries the value, the
\* source address and the created_at of the request committed last, in both servers.
RowCarriesLatestRequest ==
    \A p \in Pairs :
        (votes[p] # <<>> /\ PendingFor(p) = {}) =>
            \E r \in song_ratings :
                /\ RowsOf(p) = {r}
                /\ r.rating = Num(LastVote(p).rating)
                /\ r.user_ip = LastVote(p).userIp
                /\ r.created_at = LastVote(p).at

\* the stored rating of every row
UnitVotes == \A r \in song_ratings : r.rating \in {Num(1), Num(-1)}

\* a rating the store keeps as +1 or -1
UnitRating(v) == IntegerAffinity(Bind(v)) \in {Num(1), Num(-1)}

\* a step that executes a statement of no queued request
DirectStep == now' # now /\ pending' = pending

\* the step reports an error and leaves every row as it was
Refused == song_ratings' = song_ratings /\ lastErr' # NoError

\* C10: every song_ratings row has a rating of exactly +1 or -1, and a write of any other
\* value that reaches the store without the API's validation (insertRating, the migration)
\* is refused: a direct step that is not refused is no write of such a value.
StoreKeepsUnitVotes ==
    /\ []UnitVotes
    /\ [][(DirectStep /\ ~Refused) =>
            /\ \A s \in Songs, f \in Fingerprints, v \in DirectRatings :
                  ~UnitRating(v) => ~insertRating(s, f, Str("127.0.0.1"), v)
            /\ \A rating \in MigratedRows :
                  ~UnitRating(rating.rating) => ~MigrateRating(rating)]_vars

\* the store has refused a write for its CHECK while holding rows
CheckRefusedWrite ==
    /\ lastErr = Str("check_violation")
    /\ song_ratings # {}

---------------------------------------------------------------------------
\* Properties of the whole API.

\* C11: no request of the API removes a rating: once a POST /ratings has been committed
\* for a pair, every later state holds a row for the pair, whatever requests follow
\* (re-votes, user deletions), and GET /ratings/{songId}/user/{fingerprint} never answers
\* null for it again.
RatingsAreNeverRemoved ==
    /\ [](\A p \in Pairs :
             votes[p] # <<>> =>
                 \E r \in song_ratings :
                     r.song_id = Str(p[1]) /\ r.user_fingerprint = Str(p[2]))
    /\ [][\A s \in Songs, f \in Fingerprints :
             (votes[Pair(s, f)] # <<>> /\ GetUserRating(s, f)) =>
                 /\ lastResp'.status = 200
                 /\ lastResp'.body.userRating \in {Num(1), Num(-1)}]_vars

\* a user has been deleted while the store holds a rating
UserDeletedRatingKept ==
    /\ lastResp = Response(200, MessageBody(DeletedMessage))
    /\ \E p \in Pairs : votes[p] # <<>> /\ song_ratings # {}

\* the rows of other pairs than the request's
OtherRows(rows, r) ==
    {x \in rows : x.song_id # r.songId \/ x.user_fingerprint # r.userFingerprint}

\* C12: a POST /ratings changes nothing but its pair's row: the rows of other pairs, the
\* aggregate of every other song, the stored vote of every other pair and the users table
\* stay as they are; POST /users and DELETE /users/{id} leave song_ratings as it is.
PostRatingsTouchesOnePair ==
    [][\/ song_ratings' = song_ratings /\ users' = users
       \/ /\ \A r \in BagToSet(pending), rawIP \in RawIPs :
                RunPostRatings(r, rawIP) =>
                    /\ OtherRows(song_ratings', r) = OtherRows(song_ratings, r)
                    /\ \A s \in Songs :
                          Str(s) # r.songId =>
                              AggregateOf(song_ratings', s) = AggregateOf(song_ratings, s)
                    /\ \A s \in Songs, f \in Fingerprints :
                          (Str(s) # r.songId \/ Str(f) # r.userFingerprint) =>
                              UserRatingOf(song_ratings', s, f) =
                                  UserRatingOf(song_ratings, s, f)
                    /\ users' = users
          /\ \A body \in Bodies : ~PostRatings(body)
          /\ song_ratings' # song_ratings =>
                /\ \A body \in UserBodies : ~PostUsers(body)
                /\ \A id \in UserIds : ~DeleteUser(id)]_vars

\* a vote has been committed while the store held the row of another identity for the
\* same song
VoteBesideAnotherRow ==
    /\ lastResp = Response(201, MessageBody(SavedMessage))
    /\ \E x, y \in song_ratings :
          /\ x.song_id = y.song_id
          /\ x.user_fingerprint # y.user_fingerprint
          /\ x.created_at < y.created_at

\* the pairs and values a store holds
Values(rows) == {<<r.song_id, r.user_fingerprint, r.rating>> : r \in rows}

\* the store after the statement of r1, then that of r2, have run
RunBoth(r1, ip1, r2, ip2) ==
    LET first == UpsertRating(server, song_ratings, seq, r1.songId, r1.userFingerprint,
                              UserIp(server, ip1), r1.rating, now)
    IN UpsertRating(server, first.rows, first.seq, r2.songId, r2.userFingerprint,
                    UserIp(server, ip2), r2.rating, now + 1)

\* C13: concurrent POST /ratings for different identities or different songs are
\* independent: whichever of two such queued requests is committed first, the store ends
\* with the same pairs and values and every song with the same aggregate.
DifferentPairsCommute ==
    \A r1, r2 \in BagToSet(pending), ip1, ip2 \in RawIPs :
        (r1.songId # r2.songId \/ r1.userFingerprint # r2.userFingerprint) =>
            LET one == RunBoth(r1, ip1, r2, ip2)
                other == RunBoth(r2, ip2, r1, ip1)
            IN /\ one.err = NoError /\ other.err = NoError
               /\ Values(one.rows) = Values(other.rows)
               /\ \A s \in Songs : AggregateOf(one.rows, s) = AggregateOf(other.rows, s)
               /\ <<r1.songId, r1.userFingerprint, r1.rating>> \in Values(one.rows)
               /\ <<r2.songId, r2.userFingerprint, r2.rating>> \in Values(one.rows)

\* two POST /ratings with opposite votes for one song, from two identities, are queued
\* together
TwoVotersQueued ==
    \E r1, r2 \in BagToSet(pending) :
        /\ r1.songId = r2.songId
        /\ r1.userFingerprint # r2.userFingerprint
        /\ r1.rating # r2.rating

\* the body names a username or an email that a stored user has
Duplicates(body) ==
    \E u \in users : u.username = body.username \/ u.email = body.email

\* C17: a POST /users without username or email, or with the username or the email of an
\* existing user, is answered 400 and creates no row; no two users ever share a username
\* or an email.
DuplicateUserIsRejected ==
    /\ [](\A u, v \in users : (u.username = v.username \/ u.email = v.email) => u = v)
    /\ [][\A body \in UserBodies :
             ((Falsy(body.username) \/ Falsy(body.email) \/ Duplicates(body))
                 /\ PostUsers(body)) =>
                 /\ lastResp'.status = 400
                 /\ users' = users]_vars

\* a POST /users with a new username and the email of a stored user has been refused
DuplicateEmailRefused ==
    /\ lastErr = UniqueViolation
    /\ lastResp.status = 400
    /\ Cardinality(users) = 1
    /\ server = "pg" => users_seq = 2

\* the users a path segment names
Named(id) == {u \in users : Num(u.id) = AsInteger(id)}

\* one step of the life of the users named by the path segments ids
LifecycleStep(ids) ==
    /\ \A body \in UserBodies :
          (PostUsers(body) /\ lastResp'.status = 201) =>
              \E u \in users' \ users :
                  /\ u.id > users_seq
                  /\ u.username = body.username /\ u.email = body.email
                  /\ lastResp'.body.id = Num(u.id)
                  /\ users' = users \cup {u}
    /\ \A id \in ids :
          GetUser(id) =>
              IF Named(id) # {}
              THEN \E u \in Named(id) :
                      /\ lastResp'.status = 200
                      /\ lastResp'.body.username = u.username
                      /\ lastResp'.body.email = u.email
              ELSE lastResp'.status = 404
    /\ \A id \in ids :
          DeleteUser(id) =>
              IF Named(id) # {}
              THEN lastResp'.status = 200 /\ users' = users \ Named(id)
              ELSE lastResp'.status = 404 /\ users' = users
    /\ \A u \in users : u \in users' \/ \A v \in users' : v.id # u.id
    /\ \A u \in users' : u.id <= users_seq'

\* C18: a user created by a 201 POST /users is returned by GET /users/{id} with its
\* username and email until it is deleted; DELETE of an existing user answers 200 and
\* removes it, and its id is never given again; GET and DELETE of an id that no user has
\* answer 404 and leave the table as it is; no request changes a stored username or email.
UserLifecycle == [][LifecycleStep(UserIds)]_vars

\* the same for the path segments that are integers
UserLifecycleOfIntegerIds == [][LifecycleStep(UserIds \ {"abc"})]_vars

---------------------------------------------------------------------------
\* Properties of failures.

\* C14: when the statement of a validated POST /ratings fails in the store, the request is
\* answered with a 5xx status.
StoreFailureIsServerError ==
    [][\A r \in BagToSet(pending) :
          FailPostRatings(r) => lastResp'.status \in 500..599]_vars

\* C15: every response with a failure status carries a body with an error field that
\* holds the message.
FailureCarriesErrorField ==
    lastResp.status >= 400 => lastResp.body.error.t = "string"

\* a step that runs the statement of a queued POST /ratings
RunsUpsert == attempted' = attempted + 1

\* C16: every request is answered exactly once and a validated POST /ratings runs its
\* statement exactly once: the requests received are those answered and those queued, no
\* step writes two responses, a queued request leaves the queue in the step that runs its
\* statement and writes its response (the error of a failed statement in it), and nothing
\* is queued but by the arrival of a request.
AnsweredOnceWrittenOnce ==
    /\ [](received = answered + BagCardinality(pending))
    /\ [][/\ answered' \in {answered, answered + 1}
          /\ attempted' \in {attempted, attempted + 1}
          /\ RunsUpsert <=> BagCardinality(pending') = BagCardinality(pending) - 1
          /\ RunsUpsert =>
                /\ answered' = answered + 1
                /\ lastResp'.status \in {201, 400}
                /\ lastErr' # NoError =>
                      /\ lastResp'.body.error = lastErr'
                      /\ song_ratings' = song_ratings
                /\ lastErr' = NoError => lastResp'.status = 201
          /\ BagCardinality(pending') > BagCardinality(pending) =>
                /\ received' = received + 1
                /\ BagCardinality(pending') = BagCardinality(pending) + 1]_vars

\* the statement of a POST /ratings has failed, its error has been answered and nothing is
\* queued any more
FailureReportedOnce ==
    /\ lastErr = ConnectionError
    /\ lastResp = PostRatingsResponse(ConnectionError)
    /\ attempted >= 1
    /\ pending = EmptyBag
    /\ received = answered

---------------------------------------------------------------------------
\* Properties of the client identity.

\* the cached token has outlived the expiration its metadata gives it
Expired ==
    /\ ~Falsy(localStorage.fingerprint)
    /\ localStorage.meta # Null
    /\ clock > localStorage.meta.expires

\* C19: a call of generateFingerprint made after the expiration of the cached token
\* discards it, returns the token of the current characteristics and, when storage takes
\* the writes, caches that token with an expiration 24 hours ahead.
ExpiredTokenIsRegenerated ==
    [][\A stored \in Writes :
          (Expired /\ generateFingerprint(stored)) =>
              /\ userFingerprint' = Token(browser)
              /\ stored = "both" =>
                    localStorage' = [fingerprint |-> Token(browser),
                                     meta |-> CacheData(Token(browser), clock)]]_vars

\* C20: the calls of generateFingerprint made with unchanged characteristics of the
\* browser and, where a token is cached, within the validity of the cache, return the same
\* token.
FingerprintIsStable ==
    \A i, j \in DOMAIN issued :
        (issued[i].valid /\ issued[j].valid) => issued[i].token = issued[j].token

\* three calls have been made with unchanged characteristics, the first of which computed
\* and cached the token, and the client holds that token
ThreeCallsOneToken ==
    /\ Len(issued) = MaxCalls
    /\ \A i \in DOMAIN issued : issued[i].valid
    /\ localStorage.meta # Null
    /\ localStorage.meta.timestamp < clock
    /\ userFingerprint = Token(browser)

\* the text generateSongId encodes
Joined(g) == g.title \o <<"-">> \o g.artist

\* C21 as stated: two different (title, artist) pairs, the empty title and the empty artist
\* included, never get the same song ID.
DistinctSongsDistinctIds ==
    \A g \in generated, h \in generated :
        <<g.title, g.artist>> # <<h.title, h.artist>> => g.id # h.id

\* C21, amended: two (title, artist) pairs get different song IDs when the texts
\* "title-artist" they are joined to differ and hold no "~"; the same pair always gets
\* the same ID.
DistinctTextsDistinctIds ==
    /\ \A g \in generated, h \in generated :
          /\ Joined(g) # Joined(h)
          /\ \A i \in 1..Len(Joined(g)) : Joined(g)[i] # "~"
          /\ \A i \in 1..Len(Joined(h)) : Joined(h)[i] # "~"
          => g.id # h.id
    /\ \A g \in generated, h \in generated :
          <<g.title, g.artist>> = <<h.title, h.artist>> => g.id = h.id

\* the IDs of ('', '') and ('', 'a ') were computed, and they are the ones a browser gives
EmptyTitleAndArtist ==
    /\ [title |-> <<>>, artist |-> <<>>, id |-> "LQ"] \in generated
    /\ [title |-> <<>>, artist |-> <<"a", " ">>, id |-> "LWElMjA"] \in generated

\* a step that starts a call of loadSongRatings for the song: the call is at its first
\* await, after all the calls that were already waiting
LoadStartedFor(songId) ==
    /\ Len(calls') = Len(calls) + 1
    /\ SubSeq(calls', 1, Len(calls)) = calls
    /\ calls'[Len(calls')].fn = "loadSongRatings"
    /\ calls'[Len(calls')].awaiting = "GET /ratings"
    /\ calls'[Len(calls')].songId = songId

\* C27: updateTrackDisplay calls loadSongRatings exactly when the song ID it computes
\* differs from currentSongId, and then makes it the currentSongId; a poll with the same
\* track and a failed poll leave currentSongId as it is and load nothing.
LoadsExactlyOnSongChange ==
    [][\A data \in Tracks \cup {Null} :
          updateTrackDisplay(data) =>
             IF data # Null /\ NewSongId(data) # currentSongId
             THEN currentSongId' = NewSongId(data) /\ LoadStartedFor(NewSongId(data))
             ELSE currentSongId' = currentSongId /\ calls' = calls /\ started' = started]_vars

\* two polls gave the same track and one call of loadSongRatings was made, which is over
SameTrackPolledAgain ==
    /\ currentSongId = NewSongId([title |-> <<"a">>, artist |-> <<>>])
    /\ started = 1
    /\ calls = <<>>
    /\ display.ratingOf = currentSongId
    /\ ENABLED updateTrackDisplay([title |-> <<"a">>, artist |-> <<>>])

\* the POST /ratings of a call of rateSong
IsPost(c) == c.fn = "rateSong" /\ c.awaiting = "POST /ratings"
Posts(cs) == {i \in DOMAIN cs : IsPost(cs[i])}

\* the status lines that report a failed rating
SaveErrors ==
    {Str("Unable to save rating"), ErrorStatus(ErrorBody(ConnectionError)),
     ErrorStatus(ErrorBody(ValidationMessage))}

\* a step of rateSong sends nothing while currentSongId is null, else one POST /ratings
\* with currentSongId, the fingerprint and the rating
RateSongSendsOnePost ==
    \A rating \in {1, -1} :
        rateSong(rating) =>
           IF currentSongId = Null THEN calls' = calls
           ELSE /\ calls' = Append(calls, calls'[Len(calls')])
                /\ IsPost(calls'[Len(calls')])
                /\ calls'[Len(calls')].flight = "sent"
                /\ calls'[Len(calls')].songId = currentSongId
                /\ calls'[Len(calls')].userFingerprint = userFingerprint
                /\ calls'[Len(calls')].rating = Num(rating)

\* the answer to a POST starts the reload of currentSongId when its status is a success;
\* a failure status or a network error ends the call with an error on the status line
AnswerDecidesReload ==
    \A i \in DOMAIN calls :
        Deliver(i) /\ IsPost(calls[i]) =>
           IF calls[i].flight = "answered" /\ calls[i].resp.status \in 200..299
           THEN /\ Len(calls') = Len(calls)
                /\ calls'[i].fn = "rateSong"
                /\ calls'[i].awaiting = "GET /ratings"
                /\ calls'[i].flight = "sent"
                /\ calls'[i].songId = currentSongId
           ELSE /\ calls' = Return(i)
                /\ display'.ratingStatus \in SaveErrors

\* no other step sends a POST, and no other step starts a reload
OnlyRateSongPosts ==
    Cardinality(Posts(calls')) > Cardinality(Posts(calls)) => \E rating \in {1, -1} : rateSong(rating)
OnlyAnswersReload ==
    \A i \in DOMAIN calls' :
        calls'[i].fn = "rateSong" /\ calls'[i].awaiting = "GET /ratings"
                                  /\ calls'[i].flight = "sent" =>
           \/ i \in DOMAIN calls /\ calls[i] = calls'[i]
           \/ i + 1 \in DOMAIN calls /\ calls[i + 1] = calls'[i]
           \/ /\ i \in DOMAIN calls
              /\ IsPost(calls[i])
              /\ calls[i].flight = "answered"
              /\ calls[i].resp.status \in 200..299

\* C22: rateSong sends nothing while currentSongId is null; else it sends one
\* POST /ratings with currentSongId and the fingerprint.  The reload (loadSongRatings of
\* currentSongId) starts when, and only when, that POST is answered with a success status;
\* a failure status or a network error puts an error on the status line and starts no
\* reload.
RateSongPostsThenReloads ==
    [][RateSongSendsOnePost /\ AnswerDecidesReload /\ OnlyRateSongPosts
          /\ OnlyAnswersReload]_vars

\* a rating was saved and is being reloaded, and another one was refused by the store
ReloadAfterSuccessOnly ==
    /\ \E i \in DOMAIN calls :
          /\ calls[i].fn = "rateSong"
          /\ calls[i].awaiting = "GET /ratings/user"
          /\ calls[i].posted = Num(201)
    /\ display.ratingStatus = ErrorStatus(ErrorBody(ConnectionError))

\* every row migrate.js read from the SQLite file is in PostgreSQL, with its id, its key
\* fields and its rating
Transferred ==
    /\ \A i \in DOMAIN migration.users :
          \E u \in users :
             /\ u.id = migration.users[i].id
             /\ u.username = migration.users[i].username
             /\ u.email = migration.users[i].email
    /\ \A i \in DOMAIN migration.ratings :
          \E r \in song_ratings :
             /\ r.id = migration.ratings[i].id
             /\ r.song_id = migration.ratings[i].song_id
             /\ r.user_fingerprint = migration.ratings[i].user_fingerprint
             /\ r.rating = migration.ratings[i].rating

\* C23: when migrateData completes without an error, every users row and every
\* song_ratings row of the SQLite database is in PostgreSQL with the same id, the same
\* key fields and the same rating.
MigrationTransfersAllRows ==
    [][migration.pc = "idle" /\ migration'.pc = "done" => Transferred']_vars

\* the same, for a migration into a PostgreSQL database that holds no rows
MigrationIntoEmptyTablesTransfersAllRows ==
    [][/\ migration.pc = "idle"
       /\ migration'.pc = "done"
       /\ users = {}
       /\ song_ratings = {}
       => Transferred']_vars

\* C29: once migrateData has completed, the id sequence of each table is at least the
\* largest id in the table, also when PostgreSQL held rows before the migration.
SequencesCoverIds ==
    migration.pc = "done" =>
       /\ \A u \in users : u.id <= users_seq
       /\ \A r \in song_ratings : r.id <= seq

\* the identities with a vote committed for the song, and the sum of an aggregate's counts
Voters(songId) == {f \in Fingerprints : votes[Pair(songId, f)] # <<>>}
SumOf(resp) == resp.body.thumbs_up.n + resp.body.thumbs_down.n

\* C24: the thumbs_up and thumbs_down GET /ratings/{songId} reports add up to the number
\* of identities with at least one successful POST for the song; the sum of a song never
\* decreases, and a POST by an identity that has already voted leaves it as it is.
SumCountsVoters ==
    [][/\ \A s \in Songs :
             GetRatings(s) =>
                /\ lastResp'.body.thumbs_up.t = "number"
                /\ lastResp'.body.thumbs_down.t = "number"
                /\ SumOf(lastResp') = Cardinality(Voters(s))
       /\ \A s \in Songs :
             SumOf(AggregateOf(song_ratings', s)) >= SumOf(AggregateOf(song_ratings, s))
       /\ \A s \in Songs, f \in Fingerprints :
             votes[Pair(s, f)] # <<>> /\ votes'[Pair(s, f)] # votes[Pair(s, f)] =>
                SumOf(AggregateOf(song_ratings', s)) = SumOf(AggregateOf(song_ratings, s))]_vars

\* a song whose one voter has voted twice was read as one vote
RevotedSongReadAsOneVote ==
    \E s \in Songs :
       /\ Cardinality(Voters(s)) = 1
       /\ \E f \in Fingerprints : Len(votes[Pair(s, f)]) >= 2
       /\ lastResp.status = 200
       /\ lastResp.body.thumbs_up.t = "number"
       /\ SumOf(lastResp) = 1

\* C25: when no request is in flight any more, the status line and the highlighted button
\* are those fetched for currentSongId; and a response to a loadSongRatings of a song that
\* is no longer the currentSongId does not change the rating widgets.
DisplayFollowsCurrentSong ==
    /\ [](calls = <<>> /\ display.ratingOf # Null => display.ratingOf = currentSongId)
    /\ [][\A i \in DOMAIN calls :
             /\ Deliver(i)
             /\ calls[i].awaiting # "POST /ratings"
             /\ calls[i].flight = "answered"
             /\ calls[i].songId # currentSongId
             => display' = display]_vars

\* the rating the server stores for currentSongId and the client's fingerprint, null when
\* it stores none
StoredRating ==
    LET ratings == SelectRating(song_ratings, currentSongId, userFingerprint)
    IN IF ratings = {} THEN Null ELSE CHOOSE v \in ratings : TRUE

\* C26: when no request is in flight any more and the widgets show the rating a call of
\* rateSong fetched for currentSongId, the highlighted button and the status line are those
\* of the rating the server stores for currentSongId and the client's fingerprint, however
\* the requests of overlapping calls of rateSong were handled and answered.
DisplayShowsStoredRating ==
    /\ calls = <<>>
    /\ currentSongId # Null
    /\ display.ratingOf = currentSongId
    /\ display.ratingBy # Null
    => /\ display.active = updateRatingButtons(StoredRating)
       /\ display.ratingStatus = StatusOf(StoredRating)

\* C28: radiocalico_fingerprint is present in localStorage only when
\* radiocalico_fingerprint_meta is present as well and its fingerprint field is the
\* cached token
CachedTokenHasMetadata ==
    ~Falsy(localStorage.fingerprint)
    => /\ localStorage.meta # Null
       /\ localStorage.meta.fingerprint = localStorage.fingerprint

\* C30: the SQLite server and the PostgreSQL server write the same status code and the
\* same body for every request of a sequence sent to both from empty stores
TwoServersAnswerAlike == twin.resp.sqlite = twin.resp.pg

\* the same, of sequences in which no song id is longer than the 255 characters of the
\* PostgreSQL column
ShortSongIdsAnswerAlike ==
    (\A r \in twin.sqlite.rows : ~TooLong(r.song_id, 255)) => TwoServersAnswerAlike

====
